---- MODULE Spec2Model ----
(***************************************************************************)
(* A model of llvm-ir's conversion of a foreign (llvm-sys) function into   *)
(* the owned data model: Function::from_llvm_ref with its two passes over  *)
(* the body, the operand decoder, the terminator decoders and the          *)
(* attribute decoders.                                                     *)
(*                                                                         *)
(* The foreign module is the environment.  A foreign function is a record  *)
(*   [params |-> <<name, ...>>,                                            *)
(*    blocks |-> << [name, instrs |-> <<[opcode, name], ...>>,             *)
(*                   term |-> [opcode, name, ops, unwind]], ... >>,        *)
(*    param_attrs |-> <<attributes of parameter 1, ...>>,                  *)
(*    fn_attrs |-> <<attribute, ...>>, ret_attrs |-> <<attribute, ...>>]   *)
(* where a name of "" is LLVM's "no explicit name".  A basic-block handle  *)
(* is the block's position (Null is 0) and a value handle is a record      *)
(* (an argument, an instruction, a terminator, a constant, metadata, or a  *)
(* basic block used as a value).                                           *)
(***************************************************************************)
EXTENDS Integers, Sequences, FiniteSets, TLC

VARIABLES
    data_len,      \* parse_bc.rs:7, the length of the fuzz input
    wellformed,    \* whether the foreign module is one LLVM's verifier accepts
    library,       \* the attribute names the linked foreign library knows
    attrsdata,     \* ModuleContext.attrsdata, function.rs:306
    types,         \* ModuleContext.types, function.rs:293: the interned types
    ndecoded,      \* functions of the module converted so far in this session
    func,          \* the foreign function being converted
    pc,            \* position inside Function::from_llvm_ref
    local_ctr,     \* function.rs:286
    parameters,    \* function.rs:288, the decoded parameters' Names
    ctr_val_after_parameters,  \* function.rs:314
    bbresults,     \* function.rs:323
    bb_names,      \* function.rs:327
    val_names,     \* function.rs:333
    func_ctr,      \* FunctionContext.ctr, function.rs:342
    basic_blocks,  \* function.rs:353, the decoded blocks
    function_attributes,  \* function.rs:358
    return_attributes,    \* function.rs:379
    calling_convention,   \* function.rs:403
    queried,       \* what a Typed query on the converted function answered
    looked_up,     \* what a get_bb_by_name on the converted function answered
    panic          \* "" or the message of the panic that aborted the conversion

\* what the session is given and never changes
input_vars == <<data_len, wellformed, library>>

vars == <<data_len, wellformed, library, attrsdata, types, ndecoded, func, pc, local_ctr,
          parameters, ctr_val_after_parameters, bbresults, bb_names, val_names, func_ctr,
          basic_blocks, function_attributes, return_attributes, calling_convention,
          queried, looked_up, panic>>

(***************************************************************************)
(* Bounds of the model.                                                    *)
(***************************************************************************)
MaxParams == 2
MaxBlocks == 2
MaxInstrs == 1
MaxFuncs == 2
MaxCases == 2
MaxAttrs == 2

Max(a, b) == IF a > b THEN a ELSE b
Min(a, b) == IF a < b THEN a ELSE b

(***************************************************************************)
(* Name: an explicit string or a synthetic sequence number.  #[derive(Eq)] *)
(* equality is by (kind, value).                                           *)
(***************************************************************************)
NameStr(s) == [kind |-> "Name", s |-> s]
NameNum(n) == [kind |-> "Number", n |-> n]

\* Name::name_or_num(s, &mut ctr): the Name and the counter afterwards.
name_or_num(s, ctr) ==
    IF s = "" THEN [name |-> NameNum(ctr), ctr |-> ctr + 1]
              ELSE [name |-> NameStr(s), ctr |-> ctr]

(***************************************************************************)
(* Foreign handles.                                                        *)
(***************************************************************************)
Null == 0
VArg(i) == [k |-> "Argument", i |-> i]
VInst(b, n) == [k |-> "Instruction", b |-> b, n |-> n]
VTerm(b) == [k |-> "Instruction", b |-> b, n |-> 0]
VConst(c) == [k |-> "Constant", c |-> c]
VMeta == [k |-> "MetadataAsValue"]
VBlock(b) == [k |-> "BasicBlock", b |-> b]
\* a bit pattern that is no handle of the module
VWild == [k |-> "Wild"]

NoPanic == ""

(***************************************************************************)
(* The foreign functions the session is fed.  Explicit names are unique    *)
(* within a function, as LLVM keeps them: each entity that has one gets    *)
(* the label of its position.                                              *)
(***************************************************************************)
ParamLabel(i) == <<"a", "b", "c", "d">>[i]
BlockLabel(b) == <<"L1", "L2", "L3", "L4">>[b]
InstLabel(b, n) == << <<"x11", "x12", "x13">>, <<"x21", "x22", "x23">>,
                      <<"x31", "x32", "x33">>, <<"x41", "x42", "x43">> >>[b][n]
TermLabel(b) == <<"r1", "r2", "r3", "r4">>[b]

FInstr(opcode, name) == [opcode |-> opcode, name |-> name]
\* past is what the memory after the operands holds
FTerm(opcode, name, ops, unwind) ==
    [opcode |-> opcode, name |-> name, ops |-> ops, unwind |-> unwind, past |-> VWild]
FBlock(name, instrs, term) == [name |-> name, instrs |-> instrs, term |-> term]

\* parameter lists of n parameters, each named or not
ParamLists(n) ==
    { [i \in 1..n |-> IF i \in S THEN ParamLabel(i) ELSE ""] : S \in SUBSET (1..n) }

\* the non-terminator instructions at position n of block b: alloca yields a
\* value (named or not), fence yields none
InstrChoices(b, n) ==
    { FInstr("Alloca", ""), FInstr("Alloca", InstLabel(b, n)), FInstr("Fence", "") }

InstrLists(b) ==
    UNION { { s \in [1..n -> UNION { InstrChoices(b, k) : k \in 1..n }] :
                \A k \in 1..n : s[k] \in InstrChoices(b, k) } : n \in 0..MaxInstrs }

NextBlock(b, nb) == (b % nb) + 1

\* sequences of length lo..hi over S
SeqsOf(S, lo, hi) == UNION { [1..n -> S] : n \in lo..hi }

\* terminators of block b in a function of nb blocks whose only references
\* are to blocks
PlainTerms(b, nb) ==
    { FTerm("Ret", "", <<>>, FALSE) }
    \cup { FTerm("Br", "", <<VBlock(d)>>, FALSE) : d \in 1..nb }
    \cup { FTerm("Invoke", nm, <<VBlock(NextBlock(b, nb)), VBlock(b), VConst(0)>>, FALSE) :
              nm \in {"", TermLabel(b)} }

\* the parameter list of the functions that vary their bodies: the first
\* parameter named, the others not
BodyParams == [i \in 1..MaxParams |-> IF i = 1 THEN ParamLabel(1) ELSE ""]

\* functions that vary their parameters, over a body of one block
ParamFunctions ==
    { [params |-> ps, blocks |-> <<FBlock(nm, <<>>, t)>>] :
        ps \in UNION { ParamLists(n) : n \in 0..MaxParams },
        nm \in {"", BlockLabel(1)}, t \in PlainTerms(1, 1) }

\* functions that vary the instructions of their one block
InstrFunctions ==
    { [params |-> BodyParams, blocks |-> <<FBlock(nm, is, t)>>] :
        nm \in {"", BlockLabel(1)}, is \in InstrLists(1), t \in PlainTerms(1, 1) }

\* the terminators of block b in the functions that vary their blocks:
\* a return, a branch to the block itself or to the next one (the first one,
\* from the last), or a call that yields an unnamed value
BlockTerms(b, nb) ==
    { t \in PlainTerms(b, nb) :
        /\ t.opcode = "Br" => t.ops[1] \in {VBlock(b), VBlock(NextBlock(b, nb))}
        /\ t.name = "" }

\* functions that vary their blocks (named or not, with or without a value
\* before the terminator) and the branches between them
BlockChoices(b, nb) ==
    { FBlock(nm, is, t) : nm \in {"", BlockLabel(b)},
                          is \in {<<>>, <<FInstr("Alloca", "")>>},
                          t \in BlockTerms(b, nb) }

BlockFunctions ==
    UNION { { [params |-> BodyParams, blocks |-> bs] :
                bs \in { s \in [1..nb -> UNION { BlockChoices(b, nb) : b \in 1..nb }] :
                           \A b \in 1..nb : s[b] \in BlockChoices(b, nb) } } :
            nb \in 2..MaxBlocks }

\* functions that vary the terminator of their first block, with its value
\* and block operands: the other two blocks give it values and blocks to
\* refer to, ahead of their definitions
TermValues == { VConst(7), VMeta, VArg(1), VArg(2), VInst(2, 1), VTerm(2) }
TermBlocks == 1..3
Dest(d) == VBlock(d)
Dests(ds) == [i \in 1..Len(ds) |-> VBlock(ds[i])]
\* <<val1, dest1, val2, dest2, ...>>
Cases(ds) == [i \in 1..(2 * Len(ds)) |->
                IF i % 2 = 1 THEN VConst(10 + (i + 1) \div 2) ELSE VBlock(ds[i \div 2])]

RichTerms ==
    { FTerm("Ret", "", <<v>>, FALSE) : v \in TermValues }
    \cup { FTerm("Br", "", <<v, Dest(2), Dest(3)>>, FALSE) : v \in TermValues }
    \cup { FTerm("Br", "", <<VConst(7), Dest(d), Dest(e)>>, FALSE) :
             d \in TermBlocks, e \in TermBlocks }
    \cup { FTerm("Switch", "", <<v, Dest(1)>> \o Cases(<<2, 3>>), FALSE) : v \in TermValues }
    \cup { FTerm("Switch", "", <<VConst(7), Dest(d)>> \o Cases(ds), FALSE) :
             d \in TermBlocks, ds \in SeqsOf(TermBlocks, 0, MaxCases) }
    \cup { FTerm("IndirectBr", "", <<v, Dest(2)>>, FALSE) : v \in TermValues }
    \cup { FTerm("IndirectBr", "", <<VConst(7)>> \o Dests(ds), FALSE) :
             ds \in SeqsOf(TermBlocks, 0, MaxCases) }
    \cup { FTerm("Invoke", nm, <<Dest(d), Dest(e), VConst(0)>>, FALSE) :
             nm \in {"", TermLabel(1)}, d \in TermBlocks, e \in TermBlocks }
    \cup { FTerm("Resume", "", <<v>>, FALSE) : v \in TermValues }
    \cup { FTerm("Unreachable", "", <<>>, FALSE) }
    \cup { FTerm("CleanupRet", "", <<v>>, FALSE) : v \in TermValues }
    \cup { FTerm("CleanupRet", "", <<v, Dest(d)>>, TRUE) : v \in TermValues, d \in TermBlocks }
    \cup { FTerm("CatchRet", "", <<v, Dest(2)>>, FALSE) : v \in TermValues }
    \cup { FTerm("CatchRet", "", <<VInst(2, 1), Dest(d)>>, FALSE) : d \in TermBlocks }
    \cup { FTerm("CatchSwitch", nm, <<v, Dest(2)>>, FALSE) :
             nm \in {"", TermLabel(1)}, v \in TermValues }
    \cup { FTerm("CatchSwitch", nm, <<VConst(7), Dest(d), Dest(2)>>, TRUE) :
             nm \in {"", TermLabel(1)}, d \in TermBlocks }
    \cup { FTerm("CatchSwitch", nm, <<VConst(7)>> \o Dests(ds), FALSE) :
             nm \in {"", TermLabel(1)}, ds \in SeqsOf(TermBlocks, 1, MaxCases) }
    \cup { FTerm("CallBr", nm, <<Dest(d), VConst(0)>>, FALSE) :
             nm \in {"", TermLabel(1)}, d \in TermBlocks }

TermFunctions ==
    { [params |-> <<ParamLabel(1), "">>,
       blocks |-> << FBlock(nm, <<FInstr("Alloca", "")>>, t),
                     FBlock("", <<FInstr("Alloca", InstLabel(2, 1))>>,
                            FTerm("Invoke", "", <<Dest(3), Dest(2), VConst(0)>>, FALSE)),
                     FBlock(BlockLabel(3), <<>>, FTerm("Unreachable", "", <<>>, FALSE)) >>] :
        nm \in {"", BlockLabel(1)}, t \in RichTerms }

(***************************************************************************)
(* Attributes.  A foreign attribute is an enum (or integer) attribute with *)
(* a kind and a 64-bit value, a string attribute, or neither (a type       *)
(* attribute).  A 64-bit value is the pair of its 32-bit halves, each held *)
(* as its two's-complement bit pattern, so 0xFFFF_FFFF is -1.  The model   *)
(* is of the build with the llvm-12 features.                              *)
(***************************************************************************)
U64(hi, lo) == [hi |-> hi, lo |-> lo]
EnumAttr(kind, value) ==
    [form |-> "enum", kind |-> kind, value |-> value, skind |-> "", sval |-> ""]
StringAttr(k, v) ==
    [form |-> "string", kind |-> 0, value |-> U64(0, 0), skind |-> k, sval |-> v]
TypeAttr == [form |-> "type", kind |-> 0, value |-> U64(0, 0), skind |-> "", sval |-> ""]

\* the names AttributesData::create registers as function attributes
FunctionAttrNames ==
    << "alignstack", "allocsize", "alwaysinline", "builtin", "cold", "convergent",
       "inaccessiblememonly", "inaccessiblemem_or_argmemonly", "inlinehint", "jumptable",
       "minsize", "naked", "nobuiltin", "nocf_check", "noduplicate", "nofree",
       "noimplicitfloat", "noinline", "nomerge", "nonlazybind", "noredzone", "noreturn",
       "norecurse", "willreturn", "returns_twice", "nosync", "nounwind",
       "null_pointer_is_valid", "optforfuzzing", "optnone", "optsize", "readnone",
       "readonly", "writeonly", "argmemonly", "safestack", "sanitize_address",
       "sanitize_memory", "sanitize_thread", "sanitize_hwaddress", "sanitize_memtag",
       "shadowcallstack", "speculative_load_hardening", "speculatable", "ssp", "sspreq",
       "sspstrong", "strictfp", "uwtable" >>

\* the names AttributesData::create registers as parameter attributes
ParamAttrNames ==
    << "zeroext", "signext", "inreg", "byval", "preallocated", "inalloca", "sret", "align",
       "noalias", "nocapture", "nofree", "nest", "returned", "nonnull", "dereferenceable",
       "dereferenceable_or_null", "swiftself", "swifterror", "immarg", "noundef" >>

\* the attribute names the foreign library knows, in the order of its kind
\* numbers (kind 0 is "no such attribute"): those above and some more
LibraryAttrNames ==
    FunctionAttrNames
    \o SelectSeq(ParamAttrNames,
                 LAMBDA n : \A i \in 1..Len(FunctionAttrNames) : FunctionAttrNames[i] # n)
    \o << "hot", "mustprogress", "noprofile", "nocallback", "elementtype" >>

LLVMGetEnumAttributeKindForName(lib, name) ==
    IF \E k \in 1..Len(lib) : lib[k] = name
    THEN CHOOSE k \in 1..Len(lib) : lib[k] = name
    ELSE 0

\* the sequence without the elements of a set, and the sequence backwards
Without(seq, gone) == SelectSeq(seq, LAMBDA n : n \notin gone)
Reverse(seq) == [i \in 1..Len(seq) |-> seq[Len(seq) + 1 - i]]

\* names an older or differently built foreign library may not have, and how
\* many of them one library lacks at most
MaxMissing == 2
MissingAttrNames == {"alignstack", "uwtable", "nofree", "zeroext", "noundef", "hot"}

\* the foreign libraries a session can be linked against: the one that knows
\* every name, one that numbers the kinds the other way round, and libraries
\* that lack a few names
Libraries ==
    {LibraryAttrNames, Reverse(LibraryAttrNames)}
    \cup { Without(LibraryAttrNames, gone) :
            gone \in { g \in SUBSET MissingAttrNames : Cardinality(g) \in 1..MaxMissing } }

LLVMIsEnumAttribute(a) == a.form = "enum"
LLVMIsStringAttribute(a) == a.form = "string"
LLVMGetEnumAttributeKind(a) == a.kind
LLVMGetEnumAttributeValue(a) == a.value

\* the attributes a place of a foreign function carries
AttrKind(name) == LLVMGetEnumAttributeKindForName(LibraryAttrNames, name)
AttrChoices ==
    { EnumAttr(AttrKind(n), U64(0, 0)) : n \in {"nounwind", "zeroext", "nofree", "hot"} }
    \cup { EnumAttr(AttrKind("allocsize"), U64(8, lo)) : lo \in {-1, 4} }
    \cup { EnumAttr(AttrKind("align"), U64(0, 16)), StringAttr("probe-stack", "f"), TypeAttr }


\* a function of that body with those attributes on its parameters, on
\* itself and on its return value
\* (its calling convention is C; its return type and the type of each of its
\* values have one and the same foreign handle)
DefaultType == "T0"
WithAttributes(body, pas, fas, ras) ==
    [params |-> body.params, blocks |-> body.blocks,
     param_attrs |-> pas, fn_attrs |-> fas, ret_attrs |-> ras, callconv |-> 0,
     param_types |-> [i \in 1..Len(body.params) |-> DefaultType],
     return_type |-> DefaultType]
WithoutAttributes(body) ==
    WithAttributes(body, [i \in 1..Len(body.params) |-> <<>>], <<>>, <<>>)

\* functions that vary their attributes: up to one on each of their one
\* parameter, themselves and their return value, or more on one of the three
AttrFunctions ==
    LET body == [params |-> <<"">>,
                 blocks |-> <<FBlock("", <<>>, FTerm("Ret", "", <<>>, FALSE))>>]
        short == SeqsOf(AttrChoices, 0, 1)
        lists == SeqsOf(AttrChoices, 2, MaxAttrs)
    IN  { WithAttributes(body, <<pas>>, fas, ras) :
            pas \in short, fas \in short, ras \in short }
        \cup { WithAttributes(body, <<attrs>>, <<>>, <<>>) : attrs \in lists }
        \cup { WithAttributes(body, << <<>> >>, attrs, <<>>) : attrs \in lists }
        \cup { WithAttributes(body, << <<>> >>, <<>>, attrs) : attrs \in lists }

\* the calling-convention codes a foreign function can carry: the small
\* ones, among them every code llvm-sys enumerates, and the largest
\* (LLVM keeps the code of a function in ten bits)
MaxCallConv == 100
MaxCallConvID == 1023
CallConvCodes == 0..MaxCallConv \cup {MaxCallConvID}
LLVMGetFunctionCallConv(f) == f.callconv

\* functions that vary their calling convention
CallConvFunctions ==
    LET body == [params |-> <<>>,
                 blocks |-> <<FBlock("", <<>>, FTerm("Ret", "", <<>>, FALSE))>>]
    IN  { [WithoutAttributes(body) EXCEPT !.callconv = u] : u \in CallConvCodes }

\* the foreign type handles, and those of a function's values
TypeHandles == {DefaultType, "T1"}
LLVMTypeOf(f, v) == IF v.k = "Argument" THEN f.param_types[v.i] ELSE DefaultType
LLVMGetReturnType(f) == f.return_type

\* functions that vary the types of their parameters, and return nothing or
\* one of the parameters
TypeFunctions ==
    LET body(t) == [params |-> [i \in 1..MaxParams |-> ""],
                    blocks |-> <<FBlock("", <<>>, t)>>]
    IN  { [WithoutAttributes(body(t)) EXCEPT !.param_types = tys] :
            t \in { FTerm("Ret", "", <<>>, FALSE) }
                  \cup { FTerm("Ret", "", <<VArg(i)>>, FALSE) : i \in 1..MaxParams },
            tys \in [1..MaxParams -> TypeHandles] }

\* functions whose two blocks carry explicit names that read like sequence
\* numbers ("0", "1"), next to a block left unnamed or between themselves
DigitNames == {"", "0", "1"}
DigitNameFunctions ==
    { f \in { [params |-> <<>>,
               blocks |-> << FBlock(n1, <<>>, FTerm("Br", "", <<VBlock(2)>>, FALSE)),
                             FBlock(n2, <<>>, FTerm("Ret", "", <<>>, FALSE)) >>] :
                n1 \in DigitNames, n2 \in DigitNames } :
        f.blocks[1].name # f.blocks[2].name }

Functions ==
    { WithoutAttributes(body) :
        body \in ParamFunctions \cup InstrFunctions \cup BlockFunctions \cup TermFunctions
                 \cup DigitNameFunctions }
    \cup AttrFunctions \cup CallConvFunctions \cup TypeFunctions

\* the functions of a module after its first: those that vary the
\* parameters and instructions to number
LaterFunctions ==
    { WithoutAttributes(body) : body \in ParamFunctions \cup InstrFunctions }

\* the functions a module can hold at (0-based) position n
FunctionsAt(n) == IF n = 0 THEN Functions ELSE LaterFunctions

(***************************************************************************)
(* Functions that LLVM does not build and its verifier does not accept:    *)
(* the decoders' checks are about them.                                    *)
(***************************************************************************)
\* handles of no entity of the function
StrayValue == VInst(-1, 1)
StrayDest == VBlock(-1)

\* what the memory after the operands of a terminator may hold: no handle,
\* the handle of a constant, the handle of the function's first block
PastReads == {VWild, VConst(7), VBlock(1)}

\* the most operands a malformed ret carries
MaxRetOperands == 2

\* terminators with an operand count their opcode does not have
OperandCountTerms ==
    LET c == VConst(7)
        counts ==
            { FTerm("Ret", "", ops, FALSE) : ops \in SeqsOf({c, VArg(1)}, 0, MaxRetOperands) }
            \cup { FTerm("Br", "", ops, FALSE) : ops \in {<<>>, <<Dest(1), Dest(1)>>} }
            \cup { FTerm("Switch", "", ops, FALSE) : ops \in {<<>>, <<c>>} }
            \cup { FTerm("IndirectBr", "", <<>>, FALSE) }
            \cup { FTerm("Resume", "", ops, FALSE) : ops \in {<<>>, <<c, c>>} }
            \cup { FTerm("Unreachable", "", <<c>>, FALSE) }
            \cup { FTerm("CleanupRet", "", <<>>, FALSE) }
            \cup { FTerm("CatchRet", "", ops, FALSE) : ops \in {<<>>, <<c>>} }
            \cup { FTerm("CatchSwitch", "", <<>>, FALSE), FTerm("CatchSwitch", "", <<c>>, TRUE) }
            \* a catchswitch of a parent pad and no handler, as the bitcode
            \* reader builds from a record that announces 0 handlers
            \cup { FTerm("CatchSwitch", "", <<c>>, FALSE) }
    IN  { [t EXCEPT !.past = past] : t \in counts, past \in PastReads }

\* instructions that end a block without being terminators
NonTerminators ==
    { FTerm(opcode, "", <<VConst(7)>>, FALSE) : opcode \in {"Alloca", "Store", "Call"} }

\* terminators with an operand, a destination or a callee that is no
\* entity of the function
DanglingTerms ==
    LET c == VConst(7)
    IN  { FTerm("Ret", "", <<StrayValue>>, FALSE),
          FTerm("Br", "", <<StrayDest>>, FALSE),
          FTerm("Br", "", <<StrayValue, Dest(1), Dest(2)>>, FALSE),
          FTerm("Br", "", <<c, StrayDest, Dest(2)>>, FALSE),
          FTerm("Br", "", <<c, Dest(1), StrayDest>>, FALSE),
          FTerm("Switch", "", <<StrayValue, Dest(1)>>, FALSE),
          FTerm("Switch", "", <<c, StrayDest>>, FALSE),
          FTerm("Switch", "", <<c, Dest(1), c, StrayDest>>, FALSE),
          FTerm("IndirectBr", "", <<StrayValue, Dest(1)>>, FALSE),
          FTerm("IndirectBr", "", <<c, StrayDest>>, FALSE),
          FTerm("Invoke", "", <<StrayDest, Dest(1), c>>, FALSE),
          FTerm("Invoke", "", <<Dest(1), StrayDest, c>>, FALSE),
          FTerm("Invoke", "", <<Dest(1), Dest(1), StrayValue>>, FALSE),
          FTerm("Resume", "", <<StrayValue>>, FALSE),
          FTerm("CleanupRet", "", <<StrayValue>>, FALSE),
          FTerm("CatchRet", "", <<StrayValue, Dest(1)>>, FALSE),
          FTerm("CatchRet", "", <<c, StrayDest>>, FALSE),
          FTerm("CatchSwitch", "", <<StrayValue, Dest(1)>>, FALSE),
          FTerm("CatchSwitch", "", <<c, StrayDest>>, FALSE),
          FTerm("CatchSwitch", "", <<c, StrayDest, Dest(1)>>, TRUE),
          FTerm("CallBr", "", <<StrayDest, c>>, FALSE),
          FTerm("CallBr", "", <<Dest(1), StrayValue>>, FALSE) }

\* the malformed functions: one block that ends in a terminator with a
\* wrong operand count or in no terminator, or a block that branches to a
\* second one whose terminator dangles
MalformedFunctions ==
    { WithoutAttributes([params |-> <<ParamLabel(1)>>, blocks |-> <<FBlock("", <<>>, t)>>]) :
        t \in OperandCountTerms \cup NonTerminators }
    \cup { WithoutAttributes(
              [params |-> <<ParamLabel(1)>>,
               blocks |-> << FBlock(nm, <<FInstr("Alloca", "")>>,
                                    FTerm("Br", "", <<Dest(2)>>, FALSE)),
                             FBlock("", <<>>, t) >>]) :
            nm \in {"", BlockLabel(1)}, t \in DanglingTerms }

\* functions that carry one attribute of the kind a library gives a name: on
\* themselves, on their return value or on their parameter
CatalogAttrNames == {"alignstack", "nounwind", "uwtable", "zeroext", "noundef", "hot"}
CatalogFunctions(lib) ==
    LET body == [params |-> <<"">>,
                 blocks |-> <<FBlock("", <<>>, FTerm("Ret", "", <<>>, FALSE))>>]
        attrs == { EnumAttr(LLVMGetEnumAttributeKindForName(lib, n), U64(0, 0)) :
                     n \in { m \in CatalogAttrNames : \E k \in 1..Len(lib) : lib[k] = m } }
    IN  { WithAttributes(body, << <<>> >>, <<a>>, <<>>) : a \in attrs }
        \cup { WithAttributes(body, << <<>> >>, <<>>, <<a>>) : a \in attrs }
        \cup { WithAttributes(body, << <<a>> >>, <<>>, <<>>) : a \in attrs }

NoFunction == WithoutAttributes([params |-> <<>>, blocks |-> <<>>])

(***************************************************************************)
(* The llvm-sys queries the decoders make, answered from the foreign       *)
(* function.                                                               *)
(***************************************************************************)
NumBlocks(f) == Len(f.blocks)
get_parameters(f) == [i \in 1..Len(f.params) |-> VArg(i)]
get_basic_blocks(f) == [b \in 1..NumBlocks(f) |-> b]
get_bb_name(f, bb) == f.blocks[bb].name
LLVMGetBasicBlockTerminator(f, bb) == VTerm(bb)
ForeignTerm(f, v) == f.blocks[v.b].term
get_value_name(f, v) ==
    IF v.k = "Argument" THEN f.params[v.i]
    ELSE IF v.n = 0 THEN f.blocks[v.b].term.name
    ELSE f.blocks[v.b].instrs[v.n].name
LLVMGetInstructionOpcode(f, v) ==
    IF v.n = 0 THEN f.blocks[v.b].term.opcode ELSE f.blocks[v.b].instrs[v.n].opcode

\* operand and successor queries on a foreign terminator t, by LLVM's operand
\* layout of each opcode:
\*   br        <<dest>>  or  <<cond, false, true>>
\*   switch    <<cond, default, val1, dest1, val2, dest2, ...>>
\*   indirectbr <<addr, dest1, ...>>
\*   invoke    <<normal, unwind, callee>>       callbr  <<fallthrough, callee>>
\*   cleanupret <<pad>> or <<pad, unwind>>      catchret <<pad, successor>>
\*   catchswitch <<parent, [unwind,] handler1, ...>>
\* LLVM built without assertions does not check an operand index: a read
\* past the operands yields what the memory there holds
Slot(t, k) == IF k \in 1..Len(t.ops) THEN t.ops[k] ELSE t.past
LLVMGetNumOperands(t) == Len(t.ops)
LLVMGetOperand(t, i) == Slot(t, i + 1)
op_to_bb(v) == IF v.k = "BasicBlock" THEN v.b ELSE Null
LLVMIsAConstant(v) == v.k = "Constant"
LLVMGetValueKind(v) == v.k
LLVMGetNumSuccessors(t) ==
    CASE t.opcode = "Br" -> IF Len(t.ops) = 3 THEN 2 ELSE 1
      [] t.opcode = "Switch" -> Len(t.ops) \div 2
      [] t.opcode = "IndirectBr" ->
            \* getNumOperands() - 1 is unsigned: without operands it wraps, and
            \* the decoder's loop starts on successor 0
            IF Len(t.ops) = 0 THEN 1 ELSE Len(t.ops) - 1
      [] t.opcode = "Invoke" -> 2
      [] t.opcode = "CleanupRet" -> IF t.unwind THEN 1 ELSE 0
      [] t.opcode = "CatchRet" -> 1
      [] t.opcode = "CatchSwitch" -> Max(Len(t.ops) - 1, 0)
      [] t.opcode = "CallBr" -> Max(Len(t.ops) - 1, 0)
      [] OTHER -> 0
LLVMGetSuccessor(t, i) ==
    CASE t.opcode = "Br" -> op_to_bb(Slot(t, Len(t.ops) - i))
      [] t.opcode = "Switch" -> op_to_bb(Slot(t, 2 * i + 2))
      [] t.opcode = "Invoke" -> op_to_bb(Slot(t, Len(t.ops) - 2 + i))
      [] OTHER -> op_to_bb(Slot(t, i + 2))
LLVMGetSwitchDefaultDest(t) == op_to_bb(Slot(t, 2))
LLVMGetUnwindDest(t) ==
    CASE t.opcode = "Invoke" -> op_to_bb(Slot(t, Len(t.ops) - 1))
      [] OTHER -> IF t.unwind THEN op_to_bb(Slot(t, 2)) ELSE Null
LLVMGetNormalDest(t) ==
    CASE t.opcode = "Invoke" -> op_to_bb(Slot(t, Len(t.ops) - 2))
      [] OTHER -> op_to_bb(Slot(t, 1))
LLVMGetNumHandlers(t) == Max(Len(t.ops) - 1 - (IF t.unwind THEN 1 ELSE 0), 0)
LLVMGetHandlers(t) ==
    [h \in 1..LLVMGetNumHandlers(t) |->
        op_to_bb(Slot(t, h + 1 + (IF t.unwind THEN 1 ELSE 0)))]

(***************************************************************************)
(* A panic aborts the conversion: a decoder yields either its value with   *)
(* panic = NoPanic or a record whose panic is the message.  FirstPanic     *)
(* picks the message of the first failing step in evaluation order.        *)
(***************************************************************************)
RECURSIVE FirstPanic(_)
FirstPanic(msgs) ==
    IF msgs = <<>> THEN NoPanic
    ELSE IF Head(msgs) # NoPanic THEN Head(msgs)
    ELSE FirstPanic(Tail(msgs))

NameNotFound ==
    { "Failed to find operand in func_ctx.val_names",
      "Failed to find destination bb in map",
      "Failed to find true-destination bb in map",
      "Failed to find false-destination in bb map",
      "Failed to find switch destination in map",
      "Failed to find switch default destination in map",
      "Failed to find indirect branch destination in map",
      "Failed to find invoke return destination in map",
      "Failed to find invoke exception destination in map",
      "Failed to find unwind destination in map",
      "Failed to find CatchRet successor in map",
      "Failed to find catch handler in map",
      "Failed to find CatchSwitch default unwind destination in map",
      "Expected to find bb in func_ctx.bb_names" }

\* the process is killed for an access outside its memory
Segfault == "SIGSEGV"

\* mutant: a key the map lacks yields a name all the same
MapGet_or_default(map, key, msg) ==
    IF key \in DOMAIN map THEN [name |-> map[key], panic |-> NoPanic]
                          ELSE [name |-> NameStr(""), panic |-> NoPanic]

\* HashMap::get(..).expect(msg): the entry, or the panic
MapGet(map, key, msg) ==
    IF key \in DOMAIN map THEN [name |-> map[key], panic |-> NoPanic]
                          ELSE [name |-> NameStr(""), panic |-> msg]

\* mutant: what is not a constant is looked up, metadata too
Operand_without_metadata_test(operand, ctx) ==
    IF operand = VWild
    THEN [tag |-> "Wild", panic |-> Segfault]
    ELSE IF LLVMIsAConstant(operand)
    THEN [tag |-> "ConstantOperand", c |-> operand.c, panic |-> NoPanic]
    ELSE LET got == MapGet(ctx.val_names, operand,
                           "Failed to find operand in func_ctx.val_names")
         IN [tag |-> "LocalOperand", name |-> got.name, panic |-> got.panic]

(***************************************************************************)
(* Operand::from_llvm_ref                                                  *)
(***************************************************************************)
Operand_from_llvm_ref(operand, ctx) ==
    IF operand = VWild
    THEN \* LLVMIsAConstant dereferences what is no handle
         [tag |-> "Wild", panic |-> Segfault]
    ELSE IF LLVMIsAConstant(operand)
    THEN [tag |-> "ConstantOperand", c |-> operand.c, panic |-> NoPanic]
    ELSE IF LLVMGetValueKind(operand) = "MetadataAsValue"
    THEN [tag |-> "MetadataOperand", panic |-> NoPanic]
    ELSE LET got == MapGet(ctx.val_names, operand,
                           "Failed to find operand in func_ctx.val_names")
         IN [tag |-> "LocalOperand", name |-> got.name, panic |-> got.panic]

\* Option<T>
None == [some |-> FALSE]
Some(x) == [some |-> TRUE, v |-> x]

\* what a decoder yields when it panics
Abort(msg, ctr) == [kind |-> "PANIC", panic |-> msg, ctr |-> ctr]

\* Constant::from_llvm_ref: the interned constant of a foreign constant handle
Constant_from_llvm_ref(v) == [c |-> v.c]

\* CallInfo::from_llvm_ref, as far as the terminators use it: the callee
CallInfo_from_llvm_ref(t, ctx) ==
    [function |-> Operand_from_llvm_ref(LLVMGetOperand(t, LLVMGetNumOperands(t) - 1), ctx)]

(***************************************************************************)
(* The terminator decoders of terminator.rs.  Each takes the foreign       *)
(* function f, the terminator's handle term and the FunctionContext        *)
(* ctx = [bb_names, val_names, ctr], and yields the decoded terminator     *)
(* with the panic (if any) and func_ctx.ctr afterwards.                    *)
(***************************************************************************)
\* mutant: operands after the first are ignored
Ret_of_any_count(f, term, ctx) ==
    LET t == ForeignTerm(f, term)
        n == LLVMGetNumOperands(t)
    IN  IF n = 0 THEN [kind |-> "Ret", return_operand |-> None,
                       panic |-> NoPanic, ctr |-> ctx.ctr]
        ELSE LET op == Operand_from_llvm_ref(LLVMGetOperand(t, 0), ctx)
             IN [kind |-> "Ret", return_operand |-> Some(op),
                 panic |-> op.panic, ctr |-> ctx.ctr]

Ret_from_llvm_ref(f, term, ctx) ==
    LET t == ForeignTerm(f, term)
        n == LLVMGetNumOperands(t)
    IN  IF n = 0 THEN [kind |-> "Ret", return_operand |-> None,
                       panic |-> NoPanic, ctr |-> ctx.ctr]
        ELSE IF n = 1
        THEN LET op == Operand_from_llvm_ref(LLVMGetOperand(t, 0), ctx)
             IN [kind |-> "Ret", return_operand |-> Some(op),
                 panic |-> op.panic, ctr |-> ctx.ctr]
        ELSE Abort("Ret instruction with n operands", ctx.ctr)

BrDest(t, ctx) ==
    MapGet(ctx.bb_names, op_to_bb(LLVMGetOperand(t, 0)),
           "Failed to find destination bb in map")

Br_from_llvm_ref(f, term, ctx) ==
    LET t == ForeignTerm(f, term)
    IN  IF LLVMGetNumOperands(t) # 1
        THEN Abort("assertion failed: LLVMGetNumOperands(term) == 1", ctx.ctr)
        ELSE LET dest == BrDest(t, ctx)
             IN [kind |-> "Br", dest |-> dest.name, panic |-> dest.panic, ctr |-> ctx.ctr]

\* mutant: the true destination read from operand 1
CondBrTrueDest_operand1(t, ctx) ==
    MapGet(ctx.bb_names, op_to_bb(LLVMGetOperand(t, 1)),
           "Failed to find true-destination bb in map")

CondBrTrueDest(t, ctx) ==
    MapGet(ctx.bb_names, op_to_bb(LLVMGetOperand(t, 2)),
           "Failed to find true-destination bb in map")

CondBrFalseDest(t, ctx) ==
    MapGet(ctx.bb_names, op_to_bb(LLVMGetOperand(t, 1)),
           "Failed to find false-destination in bb map")

CondBr_from_llvm_ref(f, term, ctx) ==
    LET t == ForeignTerm(f, term)
    IN  IF LLVMGetNumOperands(t) # 3
        THEN Abort("assertion failed: LLVMGetNumOperands(term) == 3", ctx.ctr)
        ELSE LET condition == Operand_from_llvm_ref(LLVMGetOperand(t, 0), ctx)
                 true_dest == CondBrTrueDest(t, ctx)
                 false_dest == CondBrFalseDest(t, ctx)
             IN [kind |-> "CondBr", condition |-> condition,
                 true_dest |-> true_dest.name, false_dest |-> false_dest.name,
                 panic |-> FirstPanic(<<condition.panic, true_dest.panic, false_dest.panic>>),
                 ctr |-> ctx.ctr]

\* mutant: the destinations read from successor 0 on
SwitchDestSlot_from0(k) == k - 1

\* the successor slot and the operand slot Switch reads for its k-th case
SwitchDestSlot(k) == k
SwitchValueSlot(k) == 2 * k

\* Iterator::zip(dest_vals, dest_bbs) over the lazy ranges (1 .. num_dests)
\* and (1 ..= num_dests): it ends when dest_vals does, before asking dest_bbs
\* for another element
SwitchNumCases(num_dests) == Min(Max(num_dests - 1, 0), num_dests)

\* mutant: the zip asks dest_bbs for every element of its range
SwitchDestsPulled_whole_range(num_dests) == num_dests

\* how many elements of dest_bbs the zip asks for: Zip::next asks its first
\* iterator, dest_vals, and returns on None without asking the second
SwitchDestsPulled(num_dests) == SwitchNumCases(num_dests)

\* the successor indices and the operand indices the dests of a switch of
\* num_dests successors are read from
SwitchSuccessorsQueried(num_dests) ==
    { SwitchDestSlot(k) : k \in 1..SwitchDestsPulled(num_dests) }
SwitchOperandsRead(num_dests) ==
    { SwitchValueSlot(k) : k \in 1..SwitchNumCases(num_dests) }

Switch_from_llvm_ref(f, term, ctx) ==
    LET t == ForeignTerm(f, term)
        operand == Operand_from_llvm_ref(LLVMGetOperand(t, 0), ctx)
        num_dests == LLVMGetNumSuccessors(t)
        n == SwitchNumCases(num_dests)
        pulled == SwitchDestsPulled(num_dests)
        dest_bbs == [k \in 1..pulled |->
                       MapGet(ctx.bb_names, LLVMGetSuccessor(t, SwitchDestSlot(k)),
                              "Failed to find switch destination in map")]
        dest_vals == [k \in 1..n |->
                        Constant_from_llvm_ref(LLVMGetOperand(t, SwitchValueSlot(k)))]
        default_dest == MapGet(ctx.bb_names, LLVMGetSwitchDefaultDest(t),
                               "Failed to find switch default destination in map")
    IN  [kind |-> "Switch", operand |-> operand,
         dests |-> [k \in 1..n |-> <<dest_vals[k], dest_bbs[k].name>>],
         default_dest |-> default_dest.name,
         panic |-> FirstPanic(<<operand.panic>> \o [k \in 1..pulled |-> dest_bbs[k].panic]
                              \o <<default_dest.panic>>),
         ctr |-> ctx.ctr]

IndirectBr_from_llvm_ref(f, term, ctx) ==
    LET t == ForeignTerm(f, term)
        operand == Operand_from_llvm_ref(LLVMGetOperand(t, 0), ctx)
        num_dests == LLVMGetNumSuccessors(t)
        dests == [k \in 1..num_dests |->
                    MapGet(ctx.bb_names, LLVMGetSuccessor(t, k - 1),
                           "Failed to find indirect branch destination in map")]
    IN  [kind |-> "IndirectBr", operand |-> operand,
         possible_dests |-> [k \in 1..num_dests |-> dests[k].name],
         panic |-> FirstPanic(<<operand.panic>> \o [k \in 1..num_dests |-> dests[k].panic]),
         ctr |-> ctx.ctr]

\* mutant: the result taken from the value map, the counter left alone
Invoke_result_from_map(f, term, ctx) ==
    LET t == ForeignTerm(f, term)
        callinfo == CallInfo_from_llvm_ref(t, ctx)
        result == MapGet(ctx.val_names, term, "Failed to find operand in func_ctx.val_names")
        return_label == MapGet(ctx.bb_names, LLVMGetNormalDest(t),
                               "Failed to find invoke return destination in map")
        exception_label == MapGet(ctx.bb_names, LLVMGetUnwindDest(t),
                                  "Failed to find invoke exception destination in map")
    IN  [kind |-> "Invoke", function |-> callinfo.function, result |-> result.name,
         return_label |-> return_label.name, exception_label |-> exception_label.name,
         panic |-> FirstPanic(<<callinfo.function.panic, return_label.panic,
                                exception_label.panic>>),
         ctr |-> ctx.ctr]

Invoke_from_llvm_ref(f, term, ctx) ==
    LET t == ForeignTerm(f, term)
        callinfo == CallInfo_from_llvm_ref(t, ctx)
        result == name_or_num(get_value_name(f, term), ctx.ctr)
        return_label == MapGet(ctx.bb_names, LLVMGetNormalDest(t),
                               "Failed to find invoke return destination in map")
        exception_label == MapGet(ctx.bb_names, LLVMGetUnwindDest(t),
                                  "Failed to find invoke exception destination in map")
    IN  [kind |-> "Invoke", function |-> callinfo.function, result |-> result.name,
         return_label |-> return_label.name, exception_label |-> exception_label.name,
         panic |-> FirstPanic(<<callinfo.function.panic, return_label.panic,
                                exception_label.panic>>),
         ctr |-> result.ctr]

Resume_from_llvm_ref(f, term, ctx) ==
    LET t == ForeignTerm(f, term)
    IN  IF LLVMGetNumOperands(t) # 1
        THEN Abort("assertion failed: LLVMGetNumOperands(term) == 1", ctx.ctr)
        ELSE LET operand == Operand_from_llvm_ref(LLVMGetOperand(t, 0), ctx)
             IN [kind |-> "Resume", operand |-> operand, panic |-> operand.panic,
                 ctr |-> ctx.ctr]

Unreachable_from_llvm_ref(f, term, ctx) ==
    IF LLVMGetNumOperands(ForeignTerm(f, term)) # 0
    THEN Abort("assertion failed: LLVMGetNumOperands(term) == 0", ctx.ctr)
    ELSE [kind |-> "Unreachable", panic |-> NoPanic, ctr |-> ctx.ctr]

\* mutant: the unwind destination looked up without the null test
CleanupRet_without_null_test(f, term, ctx) ==
    LET t == ForeignTerm(f, term)
    IN  IF LLVMGetNumOperands(t) # 1
        THEN Abort("assertion failed: LLVMGetNumOperands(term) == 1", ctx.ctr)
        ELSE LET cleanup_pad == Operand_from_llvm_ref(LLVMGetOperand(t, 0), ctx)
                 got == MapGet(ctx.bb_names, LLVMGetUnwindDest(t),
                               "Failed to find unwind destination in map")
             IN [kind |-> "CleanupRet", cleanup_pad |-> cleanup_pad,
                 unwind_dest |-> Some(got.name),
                 panic |-> FirstPanic(<<cleanup_pad.panic, got.panic>>),
                 ctr |-> ctx.ctr]

CleanupRet_from_llvm_ref(f, term, ctx) ==
    LET t == ForeignTerm(f, term)
    IN  IF LLVMGetNumOperands(t) # 1
        THEN Abort("assertion failed: LLVMGetNumOperands(term) == 1", ctx.ctr)
        ELSE LET cleanup_pad == Operand_from_llvm_ref(LLVMGetOperand(t, 0), ctx)
                 dest == LLVMGetUnwindDest(t)
                 got == MapGet(ctx.bb_names, dest, "Failed to find unwind destination in map")
             IN [kind |-> "CleanupRet", cleanup_pad |-> cleanup_pad,
                 unwind_dest |-> IF dest = Null THEN None ELSE Some(got.name),
                 panic |-> FirstPanic(<<cleanup_pad.panic,
                                        IF dest = Null THEN NoPanic ELSE got.panic>>),
                 ctr |-> ctx.ctr]

CatchRet_from_llvm_ref(f, term, ctx) ==
    LET t == ForeignTerm(f, term)
        catch_pad == Operand_from_llvm_ref(LLVMGetOperand(t, 0), ctx)
        successor == MapGet(ctx.bb_names, LLVMGetSuccessor(t, 0),
                            "Failed to find CatchRet successor in map")
    IN  [kind |-> "CatchRet", catch_pad |-> catch_pad, successor |-> successor.name,
         panic |-> FirstPanic(<<catch_pad.panic, successor.panic>>), ctr |-> ctx.ctr]

CatchSwitch_from_llvm_ref(f, term, ctx) ==
    LET t == ForeignTerm(f, term)
        parent_pad == Operand_from_llvm_ref(LLVMGetOperand(t, 0), ctx)
        handlers == LLVMGetHandlers(t)
        got == [h \in 1..Len(handlers) |->
                  MapGet(ctx.bb_names, handlers[h], "Failed to find catch handler in map")]
        dest == LLVMGetUnwindDest(t)
        unwind == MapGet(ctx.bb_names, dest,
                         "Failed to find CatchSwitch default unwind destination in map")
        result == name_or_num(get_value_name(f, term), ctx.ctr)
    IN  [kind |-> "CatchSwitch", parent_pad |-> parent_pad,
         catch_handlers |-> [h \in 1..Len(handlers) |-> got[h].name],
         default_unwind_dest |-> IF dest = Null THEN None ELSE Some(unwind.name),
         result |-> result.name,
         panic |-> FirstPanic(<<parent_pad.panic>> \o [h \in 1..Len(handlers) |-> got[h].panic]
                              \o <<IF dest = Null THEN NoPanic ELSE unwind.panic>>),
         ctr |-> result.ctr]

\* mutant: the result is named without advancing func_ctx.ctr
CallBr_result_uncounted(f, term, ctx) ==
    LET t == ForeignTerm(f, term)
        callinfo == CallInfo_from_llvm_ref(t, ctx)
        result == name_or_num(get_value_name(f, term), ctx.ctr)
        return_label == MapGet(ctx.bb_names, LLVMGetNormalDest(t),
                               "Failed to find invoke return destination in map")
    IN  [kind |-> "CallBr", function |-> callinfo.function, result |-> result.name,
         return_label |-> return_label.name,
         panic |-> FirstPanic(<<callinfo.function.panic, return_label.panic>>),
         ctr |-> ctx.ctr]

CallBr_from_llvm_ref(f, term, ctx) ==
    LET t == ForeignTerm(f, term)
        callinfo == CallInfo_from_llvm_ref(t, ctx)
        result == name_or_num(get_value_name(f, term), ctx.ctr)
        return_label == MapGet(ctx.bb_names, LLVMGetNormalDest(t),
                               "Failed to find invoke return destination in map")
    IN  [kind |-> "CallBr", function |-> callinfo.function, result |-> result.name,
         return_label |-> return_label.name,
         panic |-> FirstPanic(<<callinfo.function.panic, return_label.panic>>),
         ctr |-> result.ctr]

TerminatorOpcodes ==
    { "Ret", "Br", "Switch", "IndirectBr", "Invoke", "Resume", "Unreachable",
      "CleanupRet", "CatchRet", "CatchSwitch", "CallBr" }

\* mutant: an instruction of any other opcode ends the block as well
Terminator_of_any_opcode(f, term, ctx) ==
    LET opcode == LLVMGetInstructionOpcode(f, term)
        n == LLVMGetNumOperands(ForeignTerm(f, term))
    IN  CASE opcode = "Ret" -> Ret_from_llvm_ref(f, term, ctx)
          [] opcode = "Br" ->
                IF n = 1 THEN Br_from_llvm_ref(f, term, ctx)
                ELSE IF n = 3 THEN CondBr_from_llvm_ref(f, term, ctx)
                ELSE Abort("LLVMBr with n operands, expected 1 or 3", ctx.ctr)
          [] opcode = "Switch" -> Switch_from_llvm_ref(f, term, ctx)
          [] opcode = "IndirectBr" -> IndirectBr_from_llvm_ref(f, term, ctx)
          [] opcode = "Invoke" -> Invoke_from_llvm_ref(f, term, ctx)
          [] opcode = "Resume" -> Resume_from_llvm_ref(f, term, ctx)
          [] opcode = "Unreachable" -> Unreachable_from_llvm_ref(f, term, ctx)
          [] opcode = "CleanupRet" -> CleanupRet_from_llvm_ref(f, term, ctx)
          [] opcode = "CatchRet" -> CatchRet_from_llvm_ref(f, term, ctx)
          [] opcode = "CatchSwitch" -> CatchSwitch_from_llvm_ref(f, term, ctx)
          [] opcode = "CallBr" -> CallBr_from_llvm_ref(f, term, ctx)
          [] OTHER -> [kind |-> "Unreachable", panic |-> NoPanic, ctr |-> ctx.ctr]

\* Terminator::from_llvm_ref: dispatch on the opcode, and for br on the
\* operand count
Terminator_from_llvm_ref(f, term, ctx) ==
    LET opcode == LLVMGetInstructionOpcode(f, term)
        n == LLVMGetNumOperands(ForeignTerm(f, term))
    IN  CASE opcode = "Ret" -> Ret_from_llvm_ref(f, term, ctx)
          [] opcode = "Br" ->
                IF n = 1 THEN Br_from_llvm_ref(f, term, ctx)
                ELSE IF n = 3 THEN CondBr_from_llvm_ref(f, term, ctx)
                ELSE Abort("LLVMBr with n operands, expected 1 or 3", ctx.ctr)
          [] opcode = "Switch" -> Switch_from_llvm_ref(f, term, ctx)
          [] opcode = "IndirectBr" -> IndirectBr_from_llvm_ref(f, term, ctx)
          [] opcode = "Invoke" -> Invoke_from_llvm_ref(f, term, ctx)
          [] opcode = "Resume" -> Resume_from_llvm_ref(f, term, ctx)
          [] opcode = "Unreachable" -> Unreachable_from_llvm_ref(f, term, ctx)
          [] opcode = "CleanupRet" -> CleanupRet_from_llvm_ref(f, term, ctx)
          [] opcode = "CatchRet" -> CatchRet_from_llvm_ref(f, term, ctx)
          [] opcode = "CatchSwitch" -> CatchSwitch_from_llvm_ref(f, term, ctx)
          [] opcode = "CallBr" -> CallBr_from_llvm_ref(f, term, ctx)
          [] OTHER ->
                Abort("Terminator::from_llvm_ref called with a non-terminator instruction",
                      ctx.ctr)

(***************************************************************************)
(* BasicBlock: the first pass over a block, which only names, and the      *)
(* second, which decodes.  An instruction is named when it yields a value; *)
(* of the terminators, Invoke, CatchSwitch and CallBr do (impl_hasresult). *)
(***************************************************************************)
needs_name(f, inst) ==
    \/ get_value_name(f, inst) # ""
    \/ LLVMGetInstructionOpcode(f, inst) \notin {"Fence", "Store"}

term_needs_name(f, term) ==
    LLVMGetInstructionOpcode(f, term) \in {"Invoke", "CatchSwitch", "CallBr"}

\* the (handle, Name) pairs of the instructions n.. of block bb, the counter
\* threaded through them
RECURSIVE first_pass_instrs(_, _, _, _)
first_pass_instrs(f, bb, n, ctr) ==
    IF n > Len(f.blocks[bb].instrs)
    THEN IF term_needs_name(f, VTerm(bb))
         THEN LET r == name_or_num(get_value_name(f, VTerm(bb)), ctr)
              IN [pairs |-> << <<VTerm(bb), r.name>> >>, ctr |-> r.ctr]
         ELSE [pairs |-> <<>>, ctr |-> ctr]
    ELSE IF needs_name(f, VInst(bb, n))
         THEN LET r == name_or_num(get_value_name(f, VInst(bb, n)), ctr)
                  rest == first_pass_instrs(f, bb, n + 1, r.ctr)
              IN [pairs |-> << <<VInst(bb, n), r.name>> >> \o rest.pairs, ctr |-> rest.ctr]
         ELSE first_pass_instrs(f, bb, n + 1, ctr)

\* BasicBlock::first_pass_names(bb, &mut ctr) -> (Name, Vec<(LLVMValueRef, Name)>)
first_pass_names(f, bb, ctr) ==
    LET bbname == name_or_num(get_bb_name(f, bb), ctr)
        insts == first_pass_instrs(f, bb, 1, bbname.ctr)
    IN  [bbname |-> bbname.name, namepairs |-> insts.pairs, ctr |-> insts.ctr]

\* Instruction::from_llvm_ref for the instructions n.. of block bb: a value's
\* destination Name is numbered again from func_ctx.ctr
RECURSIVE second_pass_instrs(_, _, _, _)
second_pass_instrs(f, bb, n, ctr) ==
    IF n > Len(f.blocks[bb].instrs) THEN [instrs |-> <<>>, ctr |-> ctr]
    ELSE LET opcode == LLVMGetInstructionOpcode(f, VInst(bb, n))
         IN  IF needs_name(f, VInst(bb, n))
             THEN LET r == name_or_num(get_value_name(f, VInst(bb, n)), ctr)
                      rest == second_pass_instrs(f, bb, n + 1, r.ctr)
                  IN [instrs |-> <<[opcode |-> opcode, dest |-> Some(r.name)]>> \o rest.instrs,
                      ctr |-> rest.ctr]
             ELSE LET rest == second_pass_instrs(f, bb, n + 1, ctr)
                  IN [instrs |-> <<[opcode |-> opcode, dest |-> None]>> \o rest.instrs,
                      ctr |-> rest.ctr]

\* BasicBlock::from_llvm_ref(bb, ctx, &mut func_ctx)
BasicBlock_from_llvm_ref(f, bb, ctx) ==
    LET name == name_or_num(get_bb_name(f, bb), ctx.ctr)
        insts == second_pass_instrs(f, bb, 1, name.ctr)
        term == Terminator_from_llvm_ref(f, LLVMGetBasicBlockTerminator(f, bb),
                                         [ctx EXCEPT !.ctr = insts.ctr])
    IN  [name |-> name.name, instrs |-> insts.instrs, term |-> term,
         panic |-> term.panic, ctr |-> term.ctr]

(***************************************************************************)
(* Function::from_llvm_ref                                                 *)
(***************************************************************************)
\* HashMap's FromIterator over (key, value) pairs: a later pair replaces an
\* earlier one with the same key
CollectMap(pairs) ==
    LET keys == { pairs[i][1] : i \in 1..Len(pairs) }
        last(k) == CHOOSE i \in 1..Len(pairs) :
                      /\ pairs[i][1] = k
                      /\ \A j \in (i + 1)..Len(pairs) : pairs[j][1] # k
    IN  [k \in keys |-> pairs[last(k)][2]]

RECURSIVE Flatten(_)
Flatten(seqs) == IF seqs = <<>> THEN <<>> ELSE Head(seqs) \o Flatten(Tail(seqs))

\* mutant: a name the library does not know is entered under kind 0
AttributeTable_miss_skipped(lib, names, what) ==
    LET kinds == [i \in 1..Len(names) |-> LLVMGetEnumAttributeKindForName(lib, names[i])]
    IN  [names |-> CollectMap([i \in 1..Len(names) |-> <<kinds[i], names[i]>>]),
         panic |-> NoPanic]

\* one of the two tables of AttributesData::create: the (kind, name) pairs
\* collected into a map, or the failed assert_ne!(kind, 0)
AttributeTable(lib, names, what) ==
    LET kinds == [i \in 1..Len(names) |-> LLVMGetEnumAttributeKindForName(lib, names[i])]
    IN  [names |-> CollectMap([i \in 1..Len(names) |-> <<kinds[i], names[i]>>]),
         panic |-> IF \E i \in 1..Len(names) : kinds[i] = 0 THEN what ELSE NoPanic]

AttributesData_create(lib) ==
    LET fns == AttributeTable(lib, FunctionAttrNames, "Function attribute not found")
        pns == AttributeTable(lib, ParamAttrNames, "Parameter attribute not found")
    IN  [function_attribute_names |-> fns.names, param_attribute_names |-> pns.names,
         panic |-> FirstPanic(<<fns.panic, pns.panic>>)]

lookup_function_attr(data, kind) ==
    IF kind \in DOMAIN data.function_attribute_names
    THEN Some(data.function_attribute_names[kind]) ELSE None
lookup_param_attr(data, kind) ==
    IF kind \in DOMAIN data.param_attribute_names
    THEN Some(data.param_attribute_names[kind]) ELSE None

\* the match arms of FunctionAttribute::from_llvm_ref: name, variant
FunctionAttrArms ==
    << <<"alignstack", "AlignStack">>, <<"allocsize", "AllocSize">>, <<"alwaysinline",
       "AlwaysInline">>, <<"builtin", "Builtin">>, <<"cold", "Cold">>, <<"convergent",
       "Convergent">>, <<"inaccessiblememonly", "InaccessibleMemOnly">>,
       <<"inaccessiblemem_or_argmemonly", "InaccessibleMemOrArgMemOnly">>, <<"inlinehint",
       "InlineHint">>, <<"jumptable", "JumpTable">>, <<"minsize", "MinimizeSize">>,
       <<"naked", "Naked">>, <<"nobuiltin", "NoBuiltin">>, <<"nocf_check", "NoCFCheck">>,
       <<"noduplicate", "NoDuplicate">>, <<"nofree", "NoFree">>, <<"noimplicitfloat",
       "NoImplicitFloat">>, <<"noinline", "NoInline">>, <<"nomerge", "NoMerge">>,
       <<"nonlazybind", "NonLazyBind">>, <<"noredzone", "NoRedZone">>, <<"noreturn",
       "NoReturn">>, <<"norecurse", "NoRecurse">>, <<"willreturn", "WillReturn">>,
       <<"returns_twice", "ReturnsTwice">>, <<"nosync", "NoSync">>, <<"nounwind",
       "NoUnwind">>, <<"null_pointer_is_valid", "NullPointerIsValid">>, <<"optforfuzzing",
       "OptForFuzzing">>, <<"optnone", "OptNone">>, <<"optsize", "OptSize">>, <<"readnone",
       "ReadNone">>, <<"readonly", "ReadOnly">>, <<"writeonly", "WriteOnly">>,
       <<"argmemonly", "ArgMemOnly">>, <<"safestack", "SafeStack">>, <<"sanitize_address",
       "SanitizeAddress">>, <<"sanitize_memory", "SanitizeMemory">>, <<"sanitize_thread",
       "SanitizeThread">>, <<"sanitize_hwaddress", "SanitizeHWAddress">>,
       <<"sanitize_memtag", "SanitizeMemTag">>, <<"shadowcallstack", "ShadowCallStack">>,
       <<"speculative_load_hardening", "SpeculativeLoadHardening">>, <<"speculatable",
       "Speculatable">>, <<"ssp", "StackProtect">>, <<"sspreq", "StackProtectReq">>,
       <<"sspstrong", "StackProtectStrong">>, <<"strictfp", "StrictFP">>, <<"uwtable",
       "UWTable">> >>

\* the match arms of ParameterAttribute::from_llvm_ref: name, variant
ParamAttrArms ==
    << <<"zeroext", "ZeroExt">>, <<"signext", "SignExt">>, <<"inreg", "InReg">>, <<"byval",
       "ByVal">>, <<"preallocated", "Preallocated">>, <<"inalloca", "InAlloca">>, <<"sret",
       "SRet">>, <<"align", "Alignment">>, <<"noalias", "NoAlias">>, <<"nocapture",
       "NoCapture">>, <<"nofree", "NoFree">>, <<"nest", "Nest">>, <<"returned",
       "Returned">>, <<"nonnull", "NonNull">>, <<"dereferenceable", "Dereferenceable">>,
       <<"dereferenceable_or_null", "DereferenceableOrNull">>, <<"swiftself",
       "SwiftSelf">>, <<"swifterror", "SwiftError">>, <<"immarg", "ImmArg">>, <<"noundef",
       "NoUndef">> >>

\* the variants that carry the attribute's value
ValuedVariants ==
    { "AlignStack", "ByVal", "SRet", "Alignment", "Dereferenceable", "DereferenceableOrNull" }

UnknownAttribute == [variant |-> "UnknownAttribute", panic |-> NoPanic]
StringAttribute(a) ==
    [variant |-> "StringAttribute", kind |-> a.skind, value |-> a.sval, panic |-> NoPanic]

\* u64 arithmetic on a value kept as its two 32-bit words (a word is the
\* 32-bit pattern, so 0xFFFF_FFFF is the word -1): value >> 32,
\* value & 0xFFFF_FFFF, value << 32, value as u32, u32 as u64, and the | of
\* two values of which, in each word, at most one has bits set
Shr32(v) == U64(0, v.hi)
And_FFFF_FFFF(v) == U64(0, v.lo)
Shl32(v) == U64(v.lo, 0)
as_u32(v) == v.lo
as_u64(w) == U64(0, w)
BitOr(v, w) == U64(IF v.hi = 0 THEN w.hi ELSE v.hi, IF v.lo = 0 THEN w.lo ELSE v.lo)

\* mutant: elt_size taken from the value without the shift
AllocSize_unshifted(value) ==
    LET elt_size == as_u32(value)
        low == as_u32(And_FFFF_FFFF(value))
    IN  [variant |-> "AllocSize", elt_size |-> elt_size,
         num_elts |-> IF low = -1 THEN None ELSE Some(low),
         panic |-> NoPanic]

\* the Some("allocsize") arm of FunctionAttribute::from_llvm_ref
AllocSize_from_value(value) ==
    LET elt_size == as_u32(Shr32(value))
        low == as_u32(And_FFFF_FFFF(value))
    IN  [variant |-> "AllocSize", elt_size |-> elt_size,
         num_elts |-> IF low = -1 THEN None ELSE Some(low),
         panic |-> NoPanic]

\* the arm for name s among arms, applied to the attribute
MatchArm(arms, s, a, unhandled) ==
    IF \E i \in 1..Len(arms) : arms[i][1] = s
    THEN LET variant == arms[CHOOSE i \in 1..Len(arms) : arms[i][1] = s][2]
             value == LLVMGetEnumAttributeValue(a)
         IN  IF variant = "AllocSize"
             THEN AllocSize_from_value(value)
             ELSE IF variant \in ValuedVariants
             THEN [variant |-> variant, value |-> value, panic |-> NoPanic]
             ELSE [variant |-> variant, panic |-> NoPanic]
    ELSE [variant |-> "PANIC", panic |-> unhandled]

\* mutant: an enum attribute the function table lacks is fatal
FunctionAttribute_unknown_fatal(a, data) ==
    IF LLVMIsEnumAttribute(a)
    THEN LET kind == LLVMGetEnumAttributeKind(a)
             looked == lookup_function_attr(data, kind)
         IN  IF looked.some
             THEN MatchArm(FunctionAttrArms, looked.v, a,
                           "Unhandled value from lookup_function_attr")
             ELSE [variant |-> "PANIC", panic |-> "unknown enum function attr"]
    ELSE IF LLVMIsStringAttribute(a) THEN StringAttribute(a)
    ELSE UnknownAttribute

FunctionAttribute_from_llvm_ref(a, data) ==
    IF LLVMIsEnumAttribute(a)
    THEN LET kind == LLVMGetEnumAttributeKind(a)
             looked == lookup_function_attr(data, kind)
         IN  IF looked.some
             THEN MatchArm(FunctionAttrArms, looked.v, a,
                           "Unhandled value from lookup_function_attr")
             ELSE UnknownAttribute
    ELSE IF LLVMIsStringAttribute(a) THEN StringAttribute(a)
    ELSE UnknownAttribute

\* mutant: the name of a parameter attribute is looked up in the function table
ParameterAttribute_from_function_table(a, data) ==
    IF LLVMIsEnumAttribute(a)
    THEN LET kind == LLVMGetEnumAttributeKind(a)
             looked == lookup_function_attr(data, kind)
         IN  IF looked.some
             THEN MatchArm(ParamAttrArms, looked.v, a,
                           "Unhandled value from lookup_param_attr")
             ELSE UnknownAttribute
    ELSE IF LLVMIsStringAttribute(a) THEN StringAttribute(a)
    ELSE UnknownAttribute

ParameterAttribute_from_llvm_ref(a, data) ==
    IF LLVMIsEnumAttribute(a)
    THEN LET kind == LLVMGetEnumAttributeKind(a)
             looked == lookup_param_attr(data, kind)
         IN  IF looked.some
             THEN MatchArm(ParamAttrArms, looked.v, a,
                           "Unhandled value from lookup_param_attr")
             ELSE UnknownAttribute
    ELSE IF LLVMIsStringAttribute(a) THEN StringAttribute(a)
    ELSE UnknownAttribute

\* attrs.into_iter().map(from_llvm_ref).collect(): the decoded attributes and
\* the panic of the first one that panics
FunctionAttributes_from_llvm_refs(attrs, data) ==
    LET out == [i \in 1..Len(attrs) |-> FunctionAttribute_from_llvm_ref(attrs[i], data)]
    IN  [attrs |-> out, panic |-> FirstPanic([i \in 1..Len(attrs) |-> out[i].panic])]
ParameterAttributes_from_llvm_refs(attrs, data) ==
    LET out == [i \in 1..Len(attrs) |-> ParameterAttribute_from_llvm_ref(attrs[i], data)]
    IN  [attrs |-> out, panic |-> FirstPanic([i \in 1..Len(attrs) |-> out[i].panic])]

\* what AttributesData::create leaves in ModuleContext.attrsdata
AttributesData(created) ==
    [function_attribute_names |-> created.function_attribute_names,
     param_attribute_names |-> created.param_attribute_names]

\* the tables before AttributesData::create has returned
NoAttributesData == AttributesData([function_attribute_names |-> <<>>,
                                    param_attribute_names |-> <<>>])

\* LLVMGetAttributeCountAtIndex and LLVMGetAttributesAtIndex
LLVMAttributeFunctionIndex == -1
LLVMAttributeReturnIndex == 0
LLVMGetAttributesAtIndex(f, idx) ==
    IF idx = LLVMAttributeFunctionIndex THEN f.fn_attrs
    ELSE IF idx = LLVMAttributeReturnIndex THEN f.ret_attrs
    ELSE f.param_attrs[idx]


\* mutant: the counter outlives the function
InitialCounter_kept(previous) == previous

\* let mut local_ctr = 0
InitialCounter(previous) == 0

\* parse_bc.rs:9, the shortest input the harness hands to the parser
MinDataLen == 5 * 4

\* the input lengths: none, one short of the shortest and the shortest
DataLens == {0, MinDataLen - 1, MinDataLen}

\* fuzz_target!: a short input is skipped; a failure to create, write or
\* rewind the in-memory file returns; otherwise Module::from_bc_path runs and
\* its result is dropped.  The foreign parser answers Err for what it rejects
fuzz_target ==
    /\ pc = "start"
    /\ \E len \in DataLens :
        /\ data_len' = len
        /\ IF len < MinDataLen
           THEN pc' = "skipped"
           ELSE \E file \in {"io_error", "written"}, parsed \in {"rejected", "accepted"} :
                   pc' = IF file = "io_error" THEN "io_error"
                         ELSE IF parsed = "rejected" THEN "err"
                         ELSE "context"
    /\ UNCHANGED <<wellformed, library, attrsdata, types, ndecoded, func, local_ctr,
                   parameters, ctr_val_after_parameters, bbresults, bb_names, val_names,
                   func_ctr, basic_blocks, function_attributes, return_attributes,
                   calling_convention, queried, looked_up, panic>>

\* ModuleContext::new: attrsdata: AttributesData::create()
CreateContext ==
    /\ pc = "context"
    /\ LET created == AttributesData_create(library)
       IN  IF created.panic # NoPanic
           THEN /\ panic' = created.panic
                /\ pc' = "panicked"
                /\ UNCHANGED attrsdata
           ELSE /\ attrsdata' = AttributesData(created)
                /\ pc' = "idle"
                /\ UNCHANGED panic
    /\ UNCHANGED <<input_vars, types, ndecoded, func, local_ctr, parameters,
                   ctr_val_after_parameters, bbresults, bb_names, val_names, func_ctr,
                   basic_blocks, function_attributes, return_attributes,
                   calling_convention, queried, looked_up>>

\* every function of the module is converted: Module::from_bc_path answers Ok
ModuleDone ==
    /\ pc = "idle"
    /\ pc' = "ok"
    /\ UNCHANGED <<input_vars, attrsdata, types, ndecoded, func, local_ctr, parameters,
                   ctr_val_after_parameters, bbresults, bb_names, val_names, func_ctr,
                   basic_blocks, function_attributes, return_attributes,
                   calling_convention, queried, looked_up, panic>>

\* the functions the module of this session can hold at position n: every
\* kind of function under the library that knows every name in the usual
\* order, and the functions with one attribute under another library; a
\* module whose functions have used more than one type goes on varying types
ModuleFunctions(n) ==
    IF library # LibraryAttrNames
    THEN IF n = 0 THEN CatalogFunctions(library) ELSE {}
    ELSE IF ~wellformed THEN IF n = 0 THEN MalformedFunctions ELSE LaterFunctions
    ELSE IF DOMAIN types.cache \subseteq {DefaultType} THEN FunctionsAt(n)
    ELSE TypeFunctions

BeginFunction ==
    /\ pc = "idle"
    /\ ndecoded < MaxFuncs
    /\ \E f \in ModuleFunctions(ndecoded) : func' = f
    /\ local_ctr' = InitialCounter(local_ctr)
    /\ parameters' = <<>>
    /\ ctr_val_after_parameters' = 0
    /\ bbresults' = <<>>
    /\ bb_names' = <<>>
    /\ val_names' = <<>>
    /\ func_ctr' = 0
    /\ basic_blocks' = <<>>
    /\ function_attributes' = <<>>
    /\ return_attributes' = <<>>
    /\ pc' = "parameters"
    /\ UNCHANGED <<ndecoded, panic>>
    /\ UNCHANGED <<input_vars, attrsdata, types, calling_convention, queried, looked_up>>

\* mutant: a named parameter consumes a number too
ParameterName_always_counts(f, p, ctr) ==
    [name |-> name_or_num(get_value_name(f, p), ctr).name, ctr |-> ctr + 1]

\* name: Name::name_or_num(get_value_name(p), &mut local_ctr)
ParameterName(f, p, ctr) == name_or_num(get_value_name(f, p), ctr)

\* the session's Types before anything is interned: the cache from foreign
\* handle to owned instance, and the number of instances made so far
NoTypes == [cache |-> <<>>, allocated |-> 0]

\* Types::type_from_llvm_ref: the cached instance of the handle, or a new
\* one, which is cached
type_from_llvm_ref(ts, handle) ==
    IF handle \in DOMAIN ts.cache
    THEN [ty |-> ts.cache[handle], types |-> ts]
    ELSE LET made == ts.allocated + 1
         IN  [ty |-> made,
              types |-> [cache |-> (handle :> made) @@ ts.cache, allocated |-> made]]

\* the instances of the handles, interned one after the other
RECURSIVE types_from_llvm_refs(_, _)
types_from_llvm_refs(ts, handles) ==
    IF handles = <<>> THEN [tys |-> <<>>, types |-> ts]
    ELSE LET first == type_from_llvm_ref(ts, Head(handles))
             rest == types_from_llvm_refs(first.types, Tail(handles))
         IN  [tys |-> <<first.ty>> \o rest.tys, types |-> rest.types]

\* mutant: the parameter's type is converted anew, whatever the cache holds
ParameterType_not_interned(ts, f, p) ==
    LET made == ts.allocated + 1
    IN  [ty |-> made,
         types |-> [cache |-> (LLVMTypeOf(f, p) :> made) @@ ts.cache, allocated |-> made]]

\* ty: ctx.types.type_from_llvm_ref(LLVMTypeOf(p))
ParameterType(ts, f, p) == type_from_llvm_ref(ts, LLVMTypeOf(f, p))

\* the type handles of the operands of block bb's terminator that decode to
\* LocalOperand { name, ty }, in the order of the operands
LocalOperandTypes(f, bb) ==
    LET ops == f.blocks[bb].term.ops
        locals == SelectSeq(ops, LAMBDA v : v.k \in {"Argument", "Instruction"})
    IN  [i \in 1..Len(locals) |-> LLVMTypeOf(f, locals[i])]

\* one element of the parameters' map, for the parameter p at (0-based)
\* position i: Parameter { name, attributes, .. }
Parameter_from_llvm_ref(f, i, p, ctr) ==
    LET named == ParameterName(f, p, ctr)
        param_num == i + 1
        attrs == ParameterAttributes_from_llvm_refs(LLVMGetAttributesAtIndex(f, param_num),
                                                    attrsdata)
    IN  [name |-> named.name, ctr |-> named.ctr,
         attributes |-> attrs.attrs, panic |-> attrs.panic]

DecodeParameter ==
    /\ pc = "parameters"
    /\ Len(parameters) < Len(func.params)
    /\ LET i == Len(parameters)
           p == get_parameters(func)[i + 1]
           r == Parameter_from_llvm_ref(func, i, p, local_ctr)
           t == ParameterType(types, func, p)
       IN  /\ local_ctr' = r.ctr
           /\ types' = t.types
           /\ IF r.panic # NoPanic
              THEN /\ panic' = r.panic
                   /\ pc' = "panicked"
                   /\ UNCHANGED parameters
              ELSE /\ parameters' = Append(parameters,
                                           [name |-> r.name, ty |-> t.ty,
                                            attributes |-> r.attributes])
                   /\ UNCHANGED <<pc, panic>>
    /\ UNCHANGED <<ndecoded, func, ctr_val_after_parameters, bbresults, bb_names,
                   val_names, func_ctr, basic_blocks, function_attributes,
                   return_attributes>>
    /\ UNCHANGED <<input_vars, attrsdata, calling_convention, queried, looked_up>>

EndParameters ==
    /\ pc = "parameters"
    /\ Len(parameters) = Len(func.params)
    /\ ctr_val_after_parameters' = local_ctr
    /\ pc' = "first_pass"
    /\ UNCHANGED <<ndecoded, func, local_ctr, parameters, bbresults, bb_names, val_names,
                   func_ctr, basic_blocks, function_attributes, return_attributes, panic>>
    /\ UNCHANGED <<input_vars, attrsdata, types, calling_convention, queried, looked_up>>

\* mutant: every block is numbered from the counter's value after the parameters
FirstPassCounter_restarted(ctr, after_parameters) == after_parameters

\* the counter the first pass over a block starts from
FirstPassCounter(ctr, after_parameters) == ctr

FirstPass ==
    /\ pc = "first_pass"
    /\ Len(bbresults) < NumBlocks(func)
    /\ LET bb == get_basic_blocks(func)[Len(bbresults) + 1]
           r == first_pass_names(func, bb, FirstPassCounter(local_ctr, ctr_val_after_parameters))
       IN  /\ bbresults' = Append(bbresults, <<bb, <<r.bbname, r.namepairs>> >>)
           /\ local_ctr' = r.ctr
    /\ UNCHANGED <<ndecoded, func, pc, parameters, ctr_val_after_parameters, bb_names,
                   val_names, func_ctr, basic_blocks, function_attributes,
                   return_attributes, panic>>
    /\ UNCHANGED <<input_vars, attrsdata, types, calling_convention, queried, looked_up>>

bb_names_of(results) ==
    CollectMap([i \in 1..Len(results) |-> <<results[i][1], results[i][2][1]>>])

\* mutant: the parameters are not chained into the value map
val_names_without_parameters(f, results, params) ==
    CollectMap(Flatten([i \in 1..Len(results) |-> results[i][2][2]]))

\* mutant: the parameters are zipped with their names in reverse
val_names_parameters_reversed(f, results, params) ==
    CollectMap(Flatten([i \in 1..Len(results) |-> results[i][2][2]])
               \o [i \in 1..Min(Len(get_parameters(f)), Len(params)) |->
                     <<get_parameters(f)[i], params[Len(params) + 1 - i].name>>])

val_names_of(f, results, params) ==
    CollectMap(Flatten([i \in 1..Len(results) |-> results[i][2][2]])
               \o [i \in 1..Min(Len(get_parameters(f)), Len(params)) |->
                     <<get_parameters(f)[i], params[i].name>>])

\* mutant: the second pass goes on counting where the first stopped
RestartCounter_not(after_parameters, ctr) == ctr

\* FunctionContext { .., ctr: ctr_val_after_parameters }
RestartCounter(after_parameters, ctr) == after_parameters

CollectNames ==
    /\ pc = "first_pass"
    /\ Len(bbresults) = NumBlocks(func)
    /\ bb_names' = bb_names_of(bbresults)
    /\ val_names' = val_names_of(func, bbresults, parameters)
    /\ func_ctr' = RestartCounter(ctr_val_after_parameters, local_ctr)
    \* return_type: ctx.types.type_from_llvm_ref(LLVMGetReturnType(functy))
    /\ types' = type_from_llvm_ref(types, LLVMGetReturnType(func)).types
    /\ pc' = "second_pass"
    /\ UNCHANGED <<ndecoded, func, local_ctr, parameters, ctr_val_after_parameters,
                   bbresults, basic_blocks, function_attributes, return_attributes, panic>>
    /\ UNCHANGED <<input_vars, attrsdata, calling_convention, queried, looked_up>>

\* mutant: the context owns its maps, and decoding a block uses them up
Borrowed_moved(map) == <<>>

\* FunctionContext { bb_names: &'a HashMap, val_names: &'a HashMap, .. }: the
\* context borrows the maps of the first pass without the right to write
\* them; what a map is after a decoder has used the context
Borrowed(map) == map

SecondPass ==
    /\ pc = "second_pass"
    /\ Len(basic_blocks) < NumBlocks(func)
    /\ LET bb == get_basic_blocks(func)[Len(basic_blocks) + 1]
           r == BasicBlock_from_llvm_ref(func, bb,
                    [bb_names |-> bb_names, val_names |-> val_names, ctr |-> func_ctr])
           tys == types_from_llvm_refs(types, LocalOperandTypes(func, bb))
       IN  IF r.panic # NoPanic
           THEN /\ panic' = r.panic
                /\ pc' = "panicked"
                /\ UNCHANGED <<func_ctr, basic_blocks, types>>
           ELSE /\ basic_blocks' = Append(basic_blocks,
                                          [name |-> r.name, instrs |-> r.instrs,
                                           term |-> r.term, tys |-> tys.tys])
                /\ func_ctr' = r.ctr
                /\ types' = tys.types
                /\ UNCHANGED <<pc, panic>>
    /\ bb_names' = Borrowed(bb_names)
    /\ val_names' = Borrowed(val_names)
    /\ UNCHANGED <<ndecoded, func, local_ctr, parameters, ctr_val_after_parameters,
                   bbresults, function_attributes, return_attributes>>
    /\ UNCHANGED <<input_vars, attrsdata, calling_convention, queried, looked_up>>

\* llvm_sys::LLVMCallConv: the variant of CallingConvention that from_u32
\* compares with, and its code, in the order of the match arms
LLVMCallConv ==
    << <<"C", 0>>, <<"Fast", 8>>, <<"Cold", 9>>, <<"GHC", 10>>, <<"HiPE", 11>>,
       <<"WebKit_JS", 12>>, <<"AnyReg", 13>>, <<"PreserveMost", 14>>,
       <<"PreserveAll", 15>>, <<"Swift", 16>>, <<"CXX_FastTLS", 17>>,
       <<"X86_StdCall", 64>>, <<"X86_FastCall", 65>>, <<"X86_RegCall", 92>>,
       <<"X86_ThisCall", 70>>, <<"X86_VectorCall", 80>>, <<"X86_Intr", 83>>,
       <<"X86_64_SysV", 78>>, <<"ARM_APCS", 66>>, <<"ARM_AAPCS", 67>>,
       <<"ARM_AAPCS_VFP", 68>>, <<"MSP430_INTR", 69>>, <<"MSP430_Builtin", 94>>,
       <<"PTX_Kernel", 71>>, <<"PTX_Device", 72>>, <<"SPIR_FUNC", 75>>,
       <<"SPIR_KERNEL", 76>>, <<"Intel_OCL_BI", 77>>, <<"Win64", 79>>, <<"HHVM", 81>>,
       <<"HHVM_C", 82>>, <<"AVR_Intr", 84>>, <<"AVR_Signal", 85>>, <<"AVR_Builtin", 86>>,
       <<"AMDGPU_CS", 90>>, <<"AMDGPU_ES", 96>>, <<"AMDGPU_GS", 88>>, <<"AMDGPU_HS", 93>>,
       <<"AMDGPU_LS", 95>>, <<"AMDGPU_PS", 89>>, <<"AMDGPU_VS", 87>>,
       <<"AMDGPU_Kernel", 91>> >>

\* the variants of CallingConvention: the named ones and Numbered(u32)
Named(variant) == [variant |-> variant]
Numbered(u) == [variant |-> "Numbered", value |-> u]

\* mutant: a code without an arm is kept in six bits
from_u32_numbered_in_six_bits(u) ==
    LET arms == { i \in 1..Len(LLVMCallConv) : u = LLVMCallConv[i][2] }
    IN  IF arms # {} THEN Named(LLVMCallConv[CHOOSE i \in arms : \A j \in arms : i <= j][1]) ELSE Numbered(u % 64)

\* mutant: a code without an arm is taken for the C convention
from_u32_unlisted_is_C(u) ==
    LET arms == { i \in 1..Len(LLVMCallConv) : u = LLVMCallConv[i][2] }
    IN  IF arms # {} THEN Named(LLVMCallConv[CHOOSE i \in arms : \A j \in arms : i <= j][1]) ELSE Named("C")

\* CallingConvention::from_u32: the first arm whose guard holds, else
\* _ => CallingConvention::Numbered(u)
from_u32(u) ==
    LET arms == { i \in 1..Len(LLVMCallConv) : u = LLVMCallConv[i][2] }
    IN  IF arms # {} THEN Named(LLVMCallConv[CHOOSE i \in arms : \A j \in arms : i <= j][1]) ELSE Numbered(u)

\* the field function_attributes of the Function
function_attributes_of(f) ==
    LET attrs == LLVMGetAttributesAtIndex(f, LLVMAttributeFunctionIndex)
        num_attrs == Len(attrs)
    IN  IF num_attrs > 0 THEN FunctionAttributes_from_llvm_refs(attrs, attrsdata)
        ELSE [attrs |-> <<>>, panic |-> NoPanic]

\* the field return_attributes of the Function
return_attributes_of(f) ==
    LET attrs == LLVMGetAttributesAtIndex(f, LLVMAttributeReturnIndex)
        num_attrs == Len(attrs)
    IN  IF num_attrs > 0 THEN ParameterAttributes_from_llvm_refs(attrs, attrsdata)
        ELSE [attrs |-> <<>>, panic |-> NoPanic]

\* the rest of the Function is assembled after its blocks: the function's
\* attributes, then those of its return value
Finish ==
    /\ pc = "second_pass"
    /\ Len(basic_blocks) = NumBlocks(func)
    /\ LET fas == function_attributes_of(func)
           ras == return_attributes_of(func)
       IN  IF fas.panic # NoPanic
           THEN /\ panic' = fas.panic
                /\ pc' = "panicked"
                /\ UNCHANGED <<function_attributes, return_attributes>>
           ELSE IF ras.panic # NoPanic
           THEN /\ panic' = ras.panic
                /\ pc' = "panicked"
                /\ function_attributes' = fas.attrs
                /\ UNCHANGED return_attributes
           ELSE /\ function_attributes' = fas.attrs
                /\ return_attributes' = ras.attrs
                /\ pc' = "done"
                /\ UNCHANGED panic
    /\ calling_convention' =
         IF pc' = "done" THEN from_u32(LLVMGetFunctionCallConv(func)) ELSE calling_convention
    /\ UNCHANGED <<ndecoded, func, local_ctr, parameters, ctr_val_after_parameters,
                   bbresults, bb_names, val_names, func_ctr, basic_blocks>>
    /\ UNCHANGED <<input_vars, attrsdata, types, queried, looked_up>>

\* the terminators void_typed! is applied to
VoidTyped ==
    { "Ret", "Br", "CondBr", "Switch", "IndirectBr", "Resume", "Unreachable",
      "CleanupRet", "CatchRet" }

\* what Types::type_of answers for the callee of an Invoke or CallBr
CalleeTypes == {"FuncType", "PointerType"}

\* impl Typed for Terminator: get_type dispatches to the variant's get_type.
\* That is types.void() for the void-typed; the callee's result type for an
\* Invoke or CallBr whose callee has a function type, a panic otherwise;
\* unimplemented!() for a CatchSwitch
Terminator_get_type(term, callee_type) ==
    CASE term.kind \in VoidTyped -> [ty |-> "void", panic |-> NoPanic]
      [] term.kind = "Invoke" ->
            IF callee_type = "FuncType" THEN [ty |-> "result_type", panic |-> NoPanic]
            ELSE [ty |-> "",
                  panic |-> "Expected the function argument of an Invoke to have type FuncType"]
      [] term.kind = "CallBr" ->
            IF callee_type = "FuncType" THEN [ty |-> "result_type", panic |-> NoPanic]
            ELSE [ty |-> "",
                  panic |-> "Expected the function argument of a CallBr to have type FuncType"]
      [] term.kind = "CatchSwitch" ->
            [ty |-> "", panic |-> "not implemented: Typed for CatchSwitch"]

\* a user of the module's first function asks, once, for the type of one of
\* its terminators
get_type ==
    /\ pc = "done"
    /\ ndecoded = 0
    /\ queried = None
    /\ looked_up = None
    /\ \E b \in 1..Len(basic_blocks), callee_type \in CalleeTypes :
         LET r == Terminator_get_type(basic_blocks[b].term, callee_type)
             kind == basic_blocks[b].term.kind
         IN  /\ queried' = Some([kind |-> kind, ty |-> r.ty,
                                 callee |-> IF kind \in {"Invoke", "CallBr"}
                                            THEN callee_type ELSE ""])
             /\ panic' = r.panic
             /\ pc' = IF r.panic # NoPanic THEN "query_panicked" ELSE pc
    /\ UNCHANGED <<input_vars, attrsdata, types, ndecoded, func, local_ctr, parameters,
                   ctr_val_after_parameters, bbresults, bb_names, val_names, func_ctr,
                   basic_blocks, function_attributes, return_attributes,
                   calling_convention, looked_up>>

\* the text a Name prints as: the string itself, or the number in decimal
Digit(d) == <<"0", "1", "2", "3", "4", "5", "6", "7", "8", "9">>[d + 1]
RECURSIVE NameText(_)
NameText(name) ==
    IF name.kind = "Name" THEN name.s
    ELSE IF name.n < 10 THEN Digit(name.n)
    ELSE NameText(NameNum(name.n \div 10)) \o Digit(name.n % 10)

\* not the code: a lookup that compares Names by the text they print as
RECURSIVE get_bb_by_name_as_text(_, _)
get_bb_by_name_as_text(blocks, name) ==
    IF blocks = <<>> THEN None
    ELSE IF NameText(Head(blocks).name) = NameText(name) THEN Some(Head(blocks))
    ELSE get_bb_by_name_as_text(Tail(blocks), name)

\* Function::get_bb_by_name: the first block of that Name, if any
RECURSIVE get_bb_by_name(_, _)
get_bb_by_name(blocks, name) ==
    IF blocks = <<>> THEN None
    ELSE IF Head(blocks).name = name THEN Some(Head(blocks))
    ELSE get_bb_by_name(Tail(blocks), name)

\* the Names a user looks blocks up by: a sequence number and the string
\* that prints like it
LookupNames == {NameNum(0), NameStr("0")}

\* a user of the module's first function, instead of asking for a type,
\* looks one of its blocks up by Name; &self: nothing of the function changes
Function_get_bb_by_name ==
    /\ pc = "done"
    /\ ndecoded = 0
    /\ queried = None
    /\ looked_up = None
    /\ \E name \in LookupNames :
         looked_up' = Some([name |-> name, found |-> get_bb_by_name(basic_blocks, name)])
    /\ UNCHANGED <<input_vars, attrsdata, types, ndecoded, func, pc, local_ctr, parameters,
                   ctr_val_after_parameters, bbresults, bb_names, val_names, func_ctr,
                   basic_blocks, function_attributes, return_attributes,
                   calling_convention, queried, panic>>

\* from_llvm_ref returns: the Function moves into the module and the locals
\* are dropped (local_ctr keeps showing the value it was dropped with)
Return ==
    /\ pc = "done"
    /\ pc' = "idle"
    /\ ndecoded' = ndecoded + 1
    /\ func' = NoFunction
    /\ parameters' = <<>>
    /\ ctr_val_after_parameters' = 0
    /\ bbresults' = <<>>
    /\ bb_names' = <<>>
    /\ val_names' = <<>>
    /\ func_ctr' = 0
    /\ basic_blocks' = <<>>
    /\ function_attributes' = <<>>
    /\ return_attributes' = <<>>
    /\ calling_convention' = None
    /\ queried' = None
    /\ looked_up' = None
    /\ UNCHANGED <<local_ctr, panic>>
    /\ UNCHANGED <<input_vars, attrsdata, types>>

\* everything but the module the session is given
InitSession ==
    /\ data_len = 0
    /\ library \in Libraries
    /\ attrsdata = NoAttributesData
    /\ types = NoTypes
    /\ calling_convention = None
    /\ queried = None
    /\ looked_up = None
    /\ ndecoded = 0
    /\ func = NoFunction
    /\ pc = "start"
    /\ local_ctr = 0
    /\ parameters = <<>>
    /\ ctr_val_after_parameters = 0
    /\ bbresults = <<>>
    /\ bb_names = <<>>
    /\ val_names = <<>>
    /\ func_ctr = 0
    /\ basic_blocks = <<>>
    /\ function_attributes = <<>>
    /\ return_attributes = <<>>
    /\ panic = NoPanic

\* a session on a module that LLVM's verifier accepts
Init == wellformed = TRUE /\ InitSession

Next ==
    \/ fuzz_target
    \/ CreateContext
    \/ ModuleDone
    \/ BeginFunction
    \/ DecodeParameter
    \/ EndParameters
    \/ FirstPass
    \/ CollectNames
    \/ SecondPass
    \/ Finish
    \/ get_type
    \/ Function_get_bb_by_name
    \/ Return

Spec == Init /\ [][Next]_vars

\* a session on a module whose first function is malformed
MalformedInit == wellformed = FALSE /\ InitSession
MalformedSpec == MalformedInit /\ [][Next]_vars

(***************************************************************************)
(* What the claims speak of, read off the foreign function itself.         *)
(***************************************************************************)
\* the foreign terminator of block b and the values and blocks it refers to
TermOf(f, b) == f.blocks[b].term
OperandsOf(f) == UNION { { TermOf(f, b).ops[i] : i \in 1..Len(TermOf(f, b).ops) } :
                          b \in 1..NumBlocks(f) }
ReferencedBlocks(f) == { v.b : v \in { w \in OperandsOf(f) : w.k = "BasicBlock" } }
ReferencedLocals(f) == { v \in OperandsOf(f) : v.k \in {"Argument", "Instruction"} }

\* an entity that yields a value, and so has a Name
YieldsValue(f, v) ==
    IF v.n = 0 THEN f.blocks[v.b].term.opcode \in {"Invoke", "CatchSwitch", "CallBr"}
               ELSE f.blocks[v.b].instrs[v.n].opcode \notin {"Fence", "Store"}

\* the entities of f that carry a Name, in declaration order: the parameters,
\* then each block followed by its value-yielding instructions and terminator
BlockEntities(f, b) ==
    LET Yields(v) == YieldsValue(f, v)
    IN  <<VBlock(b)>>
        \o SelectSeq([n \in 1..Len(f.blocks[b].instrs) |-> VInst(b, n)], Yields)
        \o (IF Yields(VTerm(b)) THEN <<VTerm(b)>> ELSE <<>>)
Traversal(f) ==
    [i \in 1..Len(f.params) |-> VArg(i)]
    \o Flatten([b \in 1..NumBlocks(f) |-> BlockEntities(f, b)])
ForeignName(f, e) == IF e.k = "BasicBlock" THEN f.blocks[e.b].name ELSE get_value_name(f, e)
\* how many of the first n entities have no explicit name
UnnamedAmong(f, n) ==
    LET tr == Traversal(f)
    IN  Cardinality({ j \in 1..n : ForeignName(f, tr[j]) = "" })
\* how many entities come before the end of block b
EntitiesThrough(f, b) ==
    Len(f.params) + Len(Flatten([c \in 1..b |-> BlockEntities(f, c)]))
\* the Name the first pass recorded for an entity
FirstPassName(e) ==
    IF e.k = "Argument" THEN parameters[e.i].name
    ELSE IF e.k = "BasicBlock" THEN bb_names[e.b]
    ELSE val_names[e]
FirstPassDone == pc \in {"second_pass", "done", "panicked"}

(***************************************************************************)
(* C1  Name-resolution completeness: once the first pass is over, every    *)
(* basic block and every local value that an operand or destination of the *)
(* function's body refers to has an entry in bb_names / val_names, and the *)
(* second pass never panics on a failed name lookup.                       *)
(***************************************************************************)
C1_NameResolutionComplete ==
    /\ panic \notin NameNotFound
    /\ FirstPassDone =>
         /\ \A b \in ReferencedBlocks(func) : b \in DOMAIN bb_names
         /\ \A v \in ReferencedLocals(func) : v \in DOMAIN val_names

\* a function is assembled whose first block returns the result of the invoke
\* that ends the second block, and a branch of it to the last block is decoded
C1_Witness ==
    /\ pc = "done"
    /\ NumBlocks(func) = 3
    /\ TermOf(func, 1).opcode = "Ret"
    /\ TermOf(func, 1).ops = <<VTerm(2)>>
    /\ basic_blocks[1].term.return_operand = Some([tag |-> "LocalOperand",
                                                   name |-> val_names[VTerm(2)],
                                                   panic |-> NoPanic])
    /\ basic_blocks[2].term.return_label = bb_names[3]

(***************************************************************************)
(* C2  Forward reference: when block B1 ends in an unconditional branch to *)
(* a block B2 declared after it, the dest of B1's decoded Br is the Name   *)
(* of the decoded B2, and get_bb_by_name on it finds B2.                   *)
(***************************************************************************)
ForwardBr(f, b1, b2) ==
    /\ b1 < b2
    /\ TermOf(f, b1).opcode = "Br"
    /\ TermOf(f, b1).ops = <<VBlock(b2)>>

C2_ForwardReference ==
    pc = "done" =>
      \A b1 \in 1..NumBlocks(func), b2 \in 1..NumBlocks(func) :
        ForwardBr(func, b1, b2) =>
          /\ basic_blocks[b1].term.kind = "Br"
          /\ basic_blocks[b1].term.dest = basic_blocks[b2].name
          /\ get_bb_by_name(basic_blocks, basic_blocks[b1].term.dest) = Some(basic_blocks[b2])

\* a forward branch to an unnamed block that is not numbered 0, from a named
\* block
C2_Witness ==
    /\ pc = "done"
    /\ \E b1 \in 1..NumBlocks(func), b2 \in 1..NumBlocks(func) :
         /\ ForwardBr(func, b1, b2)
         /\ func.blocks[b1].name # ""
         /\ func.blocks[b2].name = ""
         /\ basic_blocks[b2].name.n >= 2

(***************************************************************************)
(* C3  Counter monotonicity / no reuse: the first pass gives the i-th      *)
(* unnamed entity of the function, counted in declaration order            *)
(* (parameters, then each block with its instructions), the number i-1; so *)
(* no two unnamed entities share a number.                                 *)
(***************************************************************************)
C3_NumbersInOrder ==
    FirstPassDone =>
      LET tr == Traversal(func)
      IN  /\ \A i \in 1..Len(tr) :
               ForeignName(func, tr[i]) = "" =>
                 FirstPassName(tr[i]) = NameNum(UnnamedAmong(func, i - 1))
          /\ \A i \in 1..Len(tr), j \in 1..Len(tr) :
               (i # j /\ FirstPassName(tr[i]).kind = "Number"
                      /\ FirstPassName(tr[j]).kind = "Number")
                 => FirstPassName(tr[i]).n # FirstPassName(tr[j]).n

\* an unnamed parameter, two unnamed blocks, an unnamed instruction and an
\* unnamed invoke were all numbered
C3_Witness ==
    /\ pc = "done"
    /\ NumBlocks(func) >= 2
    /\ \E i \in 1..Len(func.params) : parameters[i].name.kind = "Number"
    /\ bb_names[1].kind = "Number"
    /\ bb_names[2].kind = "Number"
    /\ VInst(1, 1) \in DOMAIN val_names /\ val_names[VInst(1, 1)].kind = "Number"
    /\ VTerm(2) \in DOMAIN val_names /\ val_names[VTerm(2)].kind = "Number"

(***************************************************************************)
(* C4  The counter after the parameters: while the parameters are decoded  *)
(* the counter equals the number of unnamed parameters met so far (a named *)
(* one consumes nothing), and both the first pass and the restarted second *)
(* pass begin numbering at the number of unnamed parameters.               *)
(***************************************************************************)
UnnamedParams(f, n) == Cardinality({ i \in 1..n : f.params[i] = "" })

C4_CounterAfterParameters ==
    /\ pc = "parameters" => local_ctr = UnnamedParams(func, Len(parameters))
    /\ pc \in {"first_pass", "second_pass", "done", "panicked"} =>
         ctr_val_after_parameters = UnnamedParams(func, Len(func.params))
    /\ (pc = "first_pass" /\ bbresults = <<>>) =>
         local_ctr = UnnamedParams(func, Len(func.params))
    /\ (pc = "second_pass" /\ basic_blocks = <<>>) =>
         func_ctr = UnnamedParams(func, Len(func.params))

\* the second pass is about to start in a function with a named and an
\* unnamed parameter and an unnamed first block, which the first pass numbered
C4_Witness ==
    /\ pc = "second_pass"
    /\ basic_blocks = <<>>
    /\ func.params = <<ParamLabel(1), "">>
    /\ func_ctr = 1
    /\ bb_names[1] = NameNum(1)
    /\ local_ctr > func_ctr

(***************************************************************************)
(* C5  Two functions never share a counter: however many functions the     *)
(* session converted before, a function's conversion starts with the       *)
(* counter at 0 and with no name maps, so its first unnamed entity is      *)
(* numbered 0.                                                             *)
(***************************************************************************)
C5_CounterPerFunction ==
    /\ (pc = "parameters" /\ parameters = <<>>) => local_ctr = 0
    /\ pc \in {"parameters", "first_pass"} => (bb_names = <<>> /\ val_names = <<>>)
    /\ FirstPassDone =>
         /\ DOMAIN bb_names = 1..NumBlocks(func)
         /\ LET tr == Traversal(func)
            IN  \A i \in 1..Len(tr) :
                   (ForeignName(func, tr[i]) = "" /\ UnnamedAmong(func, i - 1) = 0)
                     => FirstPassName(tr[i]) = NameNum(0)

\* the second function of the session has its first block numbered 0
C5_Witness ==
    /\ ndecoded >= 1
    /\ pc = "done"
    /\ bb_names[1] = NameNum(0)
    /\ basic_blocks[1].name = NameNum(0)
    /\ local_ctr >= 2

(***************************************************************************)
(* C6  (as the claim states it) In the second pass the result Name of      *)
(* every Invoke, CatchSwitch and CallBr is the Name the first pass         *)
(* recorded, and the second pass never increments the per-function         *)
(* counter.                                                                *)
(***************************************************************************)
HasResult(t) == t.kind \in {"Invoke", "CatchSwitch", "CallBr"}

ResultsAreFirstPassNames ==
    \A b \in 1..Len(basic_blocks) :
      HasResult(basic_blocks[b].term) => basic_blocks[b].term.result = val_names[VTerm(b)]

C6_SecondPassNeverCounts ==
    pc \in {"second_pass", "done"} =>
      /\ ResultsAreFirstPassNames
      /\ func_ctr = ctr_val_after_parameters

(***************************************************************************)
(* C6  (amended) In the second pass the result Name of every Invoke,       *)
(* CatchSwitch and CallBr equals the Name the first pass recorded, but it  *)
(* is numbered again from func_ctx.ctr, the counter restarted at its value *)
(* after the parameters: the second pass increments that counter once for  *)
(* every unnamed block, unnamed value-yielding instruction and unnamed     *)
(* result-producing terminator it decodes, and an unnamed terminator's     *)
(* result is the number the counter held when the terminator was reached.  *)
(***************************************************************************)
C6_SecondPassCountsAgain ==
    pc \in {"second_pass", "done"} =>
      /\ ResultsAreFirstPassNames
      /\ func_ctr = ctr_val_after_parameters
                    + UnnamedAmong(func, EntitiesThrough(func, Len(basic_blocks)))
                    - UnnamedAmong(func, Len(func.params))
      /\ \A b \in 1..Len(basic_blocks) :
           HasResult(basic_blocks[b].term) =>
             basic_blocks[b].term.result =
               IF TermOf(func, b).name # "" THEN NameStr(TermOf(func, b).name)
               ELSE NameNum(UnnamedAmong(func, EntitiesThrough(func, b)) - 1)

\* an unnamed invoke, an unnamed catchswitch or callbr behind it: the second
\* pass has counted past the parameters
C6_Witness ==
    /\ pc = "done"
    /\ NumBlocks(func) = 3
    /\ TermOf(func, 1).opcode \in {"CatchSwitch", "CallBr"}
    /\ TermOf(func, 1).name = ""
    /\ basic_blocks[1].term.result.kind = "Number"
    /\ basic_blocks[2].term.kind = "Invoke"
    /\ basic_blocks[2].term.result.kind = "Number"
    /\ func_ctr > ctr_val_after_parameters + 2

(***************************************************************************)
(* What a decoded operand or destination must be, given the foreign value. *)
(***************************************************************************)
DecodedOperand(v) ==
    IF v.k = "Constant" THEN [tag |-> "ConstantOperand", c |-> v.c, panic |-> NoPanic]
    ELSE IF v.k = "MetadataAsValue" THEN [tag |-> "MetadataOperand", panic |-> NoPanic]
    ELSE [tag |-> "LocalOperand", name |-> FirstPassName(v), panic |-> NoPanic]
\* the Name of the decoded block that the block-valued operand v stands for
DecodedBlockName(v) == basic_blocks[v.b].name

(***************************************************************************)
(* C7  Branch disambiguation: a br with exactly 1 operand decodes to Br    *)
(* with dest the name of the block at operand 0; a br with exactly 3       *)
(* operands decodes to CondBr with condition operand 0, true_dest the name *)
(* of the block at operand 2 and false_dest that of the block at operand 1.*)
(***************************************************************************)
C7_BranchDisambiguation ==
    pc = "done" =>
      \A b \in 1..NumBlocks(func) :
        LET t == TermOf(func, b)
            d == basic_blocks[b].term
        IN  t.opcode = "Br" =>
              /\ Len(t.ops) = 1 => (d.kind = "Br" /\ d.dest = DecodedBlockName(t.ops[1]))
              /\ Len(t.ops) = 3 =>
                   /\ d.kind = "CondBr"
                   /\ d.condition = DecodedOperand(t.ops[1])
                   /\ d.true_dest = DecodedBlockName(t.ops[3])
                   /\ d.false_dest = DecodedBlockName(t.ops[2])

\* a conditional branch on a local value to two different blocks
C7_Witness ==
    /\ pc = "done"
    /\ TermOf(func, 1).opcode = "Br"
    /\ Len(TermOf(func, 1).ops) = 3
    /\ TermOf(func, 1).ops[1].k = "Instruction"
    /\ basic_blocks[1].term.kind = "CondBr"
    /\ basic_blocks[1].term.true_dest = basic_blocks[3].name
    /\ basic_blocks[1].term.false_dest = basic_blocks[2].name

(***************************************************************************)
(* C8  Switch decoding: a switch on default destination D with the cases   *)
(* (C1,B1),...,(Cn,Bn) in declaration order decodes to default_dest the    *)
(* name of D and dests <<(C1, name of B1), ..., (Cn, name of Bn)>>, its    *)
(* case values read from the operand slots 2,4,... and its destinations    *)
(* from the successor slots 1,2,...                                        *)
(***************************************************************************)
C8_SwitchDecoding ==
    pc = "done" =>
      \A b \in 1..NumBlocks(func) :
        LET t == TermOf(func, b)
            d == basic_blocks[b].term
            n == (Len(t.ops) - 2) \div 2
        IN  t.opcode = "Switch" =>
              /\ d.kind = "Switch"
              /\ d.operand = DecodedOperand(t.ops[1])
              /\ d.default_dest = DecodedBlockName(t.ops[2])
              /\ Len(d.dests) = n
              /\ \A k \in 1..n :
                   d.dests[k] = <<[c |-> t.ops[2 * k + 1].c], DecodedBlockName(t.ops[2 * k + 2])>>

\* a switch of two cases whose destinations differ from each other and from
\* the default
C8_Witness ==
    /\ pc = "done"
    /\ TermOf(func, 1).opcode = "Switch"
    /\ Len(basic_blocks[1].term.dests) = 2
    /\ basic_blocks[1].term.dests[1][2] # basic_blocks[1].term.dests[2][2]
    /\ basic_blocks[1].term.dests[1][2] # basic_blocks[1].term.default_dest
    /\ basic_blocks[1].term.dests[2][2] # basic_blocks[1].term.default_dest

(***************************************************************************)
(* C9  Unwind-to-caller: a cleanupret whose unwind-destination query       *)
(* answers null decodes to CleanupRet with unwind_dest = None; the         *)
(* conversion does not abort on it and no block is put in its place.       *)
(***************************************************************************)
C9_UnwindToCaller ==
    \A b \in 1..NumBlocks(func) :
      (TermOf(func, b).opcode = "CleanupRet" /\ LLVMGetUnwindDest(TermOf(func, b)) = Null) =>
        /\ pc = "panicked" => Len(basic_blocks) + 1 # b
        /\ Len(basic_blocks) >= b =>
             /\ basic_blocks[b].term.kind = "CleanupRet"
             /\ basic_blocks[b].term.unwind_dest = None

\* such a cleanupret is decoded
C9_Witness ==
    /\ pc = "done"
    /\ TermOf(func, 1).opcode = "CleanupRet"
    /\ LLVMGetUnwindDest(TermOf(func, 1)) = Null
    /\ basic_blocks[1].term.unwind_dest = None
    /\ basic_blocks[1].term.cleanup_pad.tag = "LocalOperand"

(***************************************************************************)
(* C10                                                                     *)
(***************************************************************************)
\* the attribute is neither an enum nor a string attribute
NeitherEnumNorString(a) == ~LLVMIsEnumAttribute(a) /\ ~LLVMIsStringAttribute(a)

\* the attribute is an enum attribute whose kind the function table lacks,
\* or it is neither an enum nor a string attribute
UnknownFunctionAttr(a) ==
    \/ /\ LLVMIsEnumAttribute(a)
       /\ lookup_function_attr(attrsdata, LLVMGetEnumAttributeKind(a)) = None
    \/ NeitherEnumNorString(a)

\* the same of the parameter table
UnknownParamAttr(a) ==
    \/ /\ LLVMIsEnumAttribute(a)
       /\ lookup_param_attr(attrsdata, LLVMGetEnumAttributeKind(a)) = None
    \/ NeitherEnumNorString(a)

\* the attributes at the positions in unknown decoded, each at its own
\* position of to, to UnknownAttribute
DecodedUnknown(from, unknown, to) ==
    /\ Len(to) = Len(from)
    /\ \A j \in unknown : to[j].variant = "UnknownAttribute"

\* the conversion was aborted while it decoded the attributes of a parameter
PanickedAtParameter ==
    pc = "panicked" /\ Len(parameters) < Len(func.params)

\* the conversion was aborted while it decoded the attributes of the function
\* or of its return value
PanickedAtFunctionAttributes ==
    /\ pc = "panicked"
    /\ func # NoFunction
    /\ Len(parameters) = Len(func.params)
    /\ Len(basic_blocks) = NumBlocks(func)

\* C10: Unknown-safety.  An attribute of a parameter, of the function or of
\* the return value that is an enum attribute whose kind the corresponding
\* table lacks (the lookup returns None), or that is neither an enum nor a
\* string attribute, decodes to UnknownAttribute at its position, and the
\* conversion is not aborted where every attribute of the place is such a one.
C10_UnknownSafety ==
    /\ \A i \in 1..Len(parameters) :
         DecodedUnknown(func.param_attrs[i],
                        { j \in 1..Len(func.param_attrs[i]) :
                            UnknownParamAttr(func.param_attrs[i][j]) },
                        parameters[i].attributes)
    /\ pc = "done" =>
         /\ DecodedUnknown(func.fn_attrs,
                           { j \in 1..Len(func.fn_attrs) : UnknownFunctionAttr(func.fn_attrs[j]) },
                           function_attributes)
         /\ DecodedUnknown(func.ret_attrs,
                           { j \in 1..Len(func.ret_attrs) : UnknownParamAttr(func.ret_attrs[j]) },
                           return_attributes)
    /\ PanickedAtParameter =>
         \E j \in 1..Len(func.param_attrs[Len(parameters) + 1]) :
            ~UnknownParamAttr(func.param_attrs[Len(parameters) + 1][j])
    /\ PanickedAtFunctionAttributes =>
         \/ \E j \in 1..Len(func.fn_attrs) : ~UnknownFunctionAttr(func.fn_attrs[j])
         \/ \E j \in 1..Len(func.ret_attrs) : ~UnknownParamAttr(func.ret_attrs[j])

\* a function is converted whose function attribute is neither enum nor
\* string, whose parameter carries an enum attribute of the function table
\* only, and whose return value carries one of neither table: all three are
\* UnknownAttribute
C10_Witness ==
    /\ pc = "done"
    /\ func.fn_attrs = <<TypeAttr>>
    /\ func.param_attrs = << <<EnumAttr(AttrKind("nounwind"), U64(0, 0))>> >>
    /\ func.ret_attrs = <<EnumAttr(AttrKind("hot"), U64(0, 0))>>
    /\ function_attributes = <<UnknownAttribute>>
    /\ parameters[1].attributes = <<UnknownAttribute>>
    /\ return_attributes = <<UnknownAttribute>>

\* ---------------------------------------------------------------------------
\* the attribute catalog

\* the session has not yet reached ModuleContext::new, or never will
BeforeContext == pc \in {"start", "skipped", "io_error", "err", "context"}

\* the listed names the foreign library of the session answers kind 0 for
MissedNames ==
    ({ FunctionAttrNames[i] : i \in 1..Len(FunctionAttrNames) }
     \cup { ParamAttrNames[i] : i \in 1..Len(ParamAttrNames) })
    \ { library[k] : k \in 1..Len(library) }

\* every name of the list is in the table under the library's kind for it
RecordedUnderKind(names, table) ==
    \A i \in 1..Len(names) :
        LET kind == LLVMGetEnumAttributeKindForName(library, names[i])
        IN  kind \in DOMAIN table /\ table[kind] = names[i]

\* C11: Catalog build is fatal on a miss.  Where the foreign library answers
\* kind 0 for any listed function or parameter attribute name, creating the
\* catalog aborts the session and leaves no catalog (and so no function is
\* ever converted); where it knows them all, every listed name is recorded
\* under the kind the library gave it (looked at before the first function
\* is converted: no later step writes the catalog).
C11_CatalogFatalOnMiss ==
    ~BeforeContext =>
        IF MissedNames # {}
        THEN /\ pc = "panicked"
             /\ panic \in {"Function attribute not found", "Parameter attribute not found"}
             /\ attrsdata = NoAttributesData
             /\ func = NoFunction /\ ndecoded = 0
        ELSE (func = NoFunction /\ ndecoded = 0) =>
                   /\ RecordedUnderKind(FunctionAttrNames, attrsdata.function_attribute_names)
                   /\ RecordedUnderKind(ParamAttrNames, attrsdata.param_attribute_names)

\* a library that knows every function attribute name but not the parameter
\* attribute "zeroext" has aborted the session
C11_Witness ==
    /\ pc = "panicked"
    /\ MissedNames = {"zeroext"}
    /\ panic = "Parameter attribute not found"
    /\ attrsdata = NoAttributesData

\* ---------------------------------------------------------------------------
\* calling conventions

\* the codes llvm_sys::LLVMCallConv enumerates
EnumeratedCodes == { LLVMCallConv[i][2] : i \in 1..Len(LLVMCallConv) }

\* C12: CallingConvention::from_u32 is total: a converted function always
\* has a calling convention, whatever code the foreign function carries; it
\* is Numbered(u) exactly when the code u is none of the enumerated ones, and
\* then carries u unchanged; otherwise it is the named variant whose code is u.
C12_CallingConventionTotal ==
    pc = "done" =>
        LET u == LLVMGetFunctionCallConv(func)
        IN  /\ calling_convention # None
            /\ calling_convention.variant = "Numbered" <=> u \notin EnumeratedCodes
            /\ u \notin EnumeratedCodes => calling_convention = Numbered(u)
            /\ u \in EnumeratedCodes =>
                  \E i \in 1..Len(LLVMCallConv) :
                      LLVMCallConv[i] = <<calling_convention.variant, u>>

\* a function with a code between two enumerated ones was converted
C12_Witness ==
    /\ pc = "done"
    /\ LLVMGetFunctionCallConv(func) = 73
    /\ calling_convention = Numbered(73)

\* ---------------------------------------------------------------------------
\* the terminator of a block

\* enum Terminator
TerminatorVariants ==
    { "Ret", "Br", "CondBr", "Switch", "IndirectBr", "Invoke", "Resume", "Unreachable",
      "CleanupRet", "CatchRet", "CatchSwitch", "CallBr" }

NonTerminatorPanic == "Terminator::from_llvm_ref called with a non-terminator instruction"

\* C13: Terminator-finality.  Every decoded block ends in a Terminator, made
\* from an instruction with a terminator opcode, and none of the elements
\* before it is one; a block whose last instruction has any other opcode is
\* never decoded: the terminator decoder aborts the conversion on it.
C13_TerminatorFinality ==
    /\ \A b \in 1..Len(basic_blocks) :
         /\ basic_blocks[b].term.kind \in TerminatorVariants
         /\ TermOf(func, b).opcode \in TerminatorOpcodes
         /\ \A i \in 1..Len(basic_blocks[b].instrs) :
               basic_blocks[b].instrs[i].opcode \notin TerminatorOpcodes
    /\ \A b \in 1..NumBlocks(func) :
         TermOf(func, b).opcode \notin TerminatorOpcodes =>
            /\ Len(basic_blocks) < b
            /\ pc \notin {"done", "idle", "ok"}
            /\ (pc = "panicked" /\ Len(basic_blocks) = b - 1) => panic = NonTerminatorPanic

\* a block that ends in an alloca aborted the conversion
C13_Witness ==
    /\ pc = "panicked"
    /\ panic = NonTerminatorPanic
    /\ TermOf(func, 1).opcode = "Alloca"
    /\ basic_blocks = <<>>

\* ---------------------------------------------------------------------------
\* interning

\* every type a parameter or a local operand of the function under
\* conversion was given is the instance the cache holds for its handle: so
\* two requests for one handle were answered with one and the same instance
SameInstancePerHandle ==
    /\ \A i \in 1..Len(parameters) :
         LET handle == LLVMTypeOf(func, VArg(i))
         IN  handle \in DOMAIN types.cache /\ parameters[i].ty = types.cache[handle]
    /\ \A i, j \in 1..Len(parameters) :
         LLVMTypeOf(func, VArg(i)) = LLVMTypeOf(func, VArg(j)) =>
            parameters[i].ty = parameters[j].ty
    /\ \A b \in 1..Len(basic_blocks) :
         LET handles == LocalOperandTypes(func, b)
         IN  /\ Len(basic_blocks[b].tys) = Len(handles)
             /\ \A k \in 1..Len(handles) :
                   /\ handles[k] \in DOMAIN types.cache
                   /\ basic_blocks[b].tys[k] = types.cache[handles[k]]

\* a step keeps every entry of the cache as it is
CacheOnlyGrows ==
    \A handle \in DOMAIN types.cache :
        handle \in DOMAIN types'.cache /\ types'.cache[handle] = types.cache[handle]

HasDangling(t) == \E i \in 1..Len(t.ops) : t.ops[i] \in {StrayValue, StrayDest}

\* C15: A missing name is fatal, and all-or-nothing.  A block whose
\* terminator refers to a value or a block that the first pass recorded no
\* name for is never decoded: the second pass aborts at it with the panic of
\* a failed lookup, and then no Function is assembled from the blocks decoded
\* before it, nor is the module: the session never converts another function
\* and never answers Ok.
C15_MissingNameFatal ==
    \A b \in 1..NumBlocks(func) :
        HasDangling(TermOf(func, b)) =>
            /\ Len(basic_blocks) < b
            /\ pc \notin {"done", "idle", "ok"}
            /\ ndecoded = 0
            /\ function_attributes = <<>> /\ calling_convention = None
            /\ pc = "panicked" => (Len(basic_blocks) = b - 1 /\ panic \in NameNotFound)

\* the second block of a function branches to a block that is none of the
\* function's: the conversion was aborted after the first block was decoded
C15_Witness ==
    /\ pc = "panicked"
    /\ Len(basic_blocks) = 1
    /\ TermOf(func, 2).opcode = "Br"
    /\ TermOf(func, 2).ops = <<StrayDest>>
    /\ panic = "Failed to find destination bb in map"

\* ---------------------------------------------------------------------------
\* operand counts

\* the operand count of the terminator covers every slot its rule reads
CoversSlots(t) ==
    CASE t.opcode = "Ret" -> Len(t.ops) \in {0, 1}
      [] t.opcode = "Br" -> Len(t.ops) \in {1, 3}
      [] t.opcode = "Switch" -> Len(t.ops) >= 2
      [] t.opcode = "IndirectBr" -> Len(t.ops) >= 1
      [] t.opcode = "Resume" -> Len(t.ops) = 1
      [] t.opcode = "Unreachable" -> Len(t.ops) = 0
      [] t.opcode = "CleanupRet" -> Len(t.ops) >= 1
      [] t.opcode = "CatchRet" -> Len(t.ops) >= 2
      [] t.opcode = "CatchSwitch" -> Len(t.ops) >= (IF t.unwind THEN 2 ELSE 1)
      [] OTHER -> TRUE

\* the opcodes of the terminator rules the operand counts are about
CountedOpcodes ==
    { "Ret", "Br", "Switch", "IndirectBr", "Resume", "Unreachable", "CleanupRet",
      "CatchRet", "CatchSwitch" }

\* C16: Operand counts are checked.  A block whose last instruction has an
\* opcode without a decode rule, or is a Ret, Br, Switch, IndirectBr, Resume,
\* Unreachable, CleanupRet, CatchRet or CatchSwitch whose operand count does
\* not cover every slot its rule reads, is never decoded: the decoder panics
\* on it, and the process is not killed for reading past the operands.
C16_OperandCountFatal ==
    \A b \in 1..NumBlocks(func) :
        LET t == TermOf(func, b)
        IN  (t.opcode \notin TerminatorOpcodes
             \/ (t.opcode \in CountedOpcodes /\ ~CoversSlots(t))) =>
                /\ Len(basic_blocks) < b
                /\ pc \notin {"done", "idle", "ok"}
                /\ (pc = "panicked" /\ Len(basic_blocks) = b - 1) => panic # Segfault

\* ---------------------------------------------------------------------------
\* operands

\* the decoded terminators whose operand 0 is decoded as an Operand, and
\* that Operand
HasOperand0(d) ==
    \/ d.kind \in {"CondBr", "Switch", "IndirectBr", "Resume", "CleanupRet", "CatchRet",
                   "CatchSwitch"}
    \/ d.kind = "Ret" /\ d.return_operand # None
Operand0(d) ==
    CASE d.kind = "Ret" -> d.return_operand.v
      [] d.kind = "CondBr" -> d.condition
      [] d.kind = "CleanupRet" -> d.cleanup_pad
      [] d.kind = "CatchRet" -> d.catch_pad
      [] d.kind = "CatchSwitch" -> d.parent_pad
      [] OTHER -> d.operand

\* C17: Operand classification.  A foreign value decodes to exactly one of
\* ConstantOperand (when it is a constant), else MetadataOperand (when its
\* kind is metadata-as-value), else LocalOperand carrying the Name the first
\* pass recorded for it; no value of a well-formed function fails to
\* classify; and decoding operands leaves the name maps as the first pass
\* built them and, at the end of the function, the counter where the unnamed
\* blocks and values alone put it.
C17_OperandClassification ==
    /\ panic \notin NameNotFound
    /\ \A b \in 1..Len(basic_blocks) :
         HasOperand0(basic_blocks[b].term) =>
            LET v == TermOf(func, b).ops[1]
                o == Operand0(basic_blocks[b].term)
            IN  /\ o.tag \in {"ConstantOperand", "MetadataOperand", "LocalOperand"}
                /\ o.tag = "ConstantOperand" <=> v.k = "Constant"
                /\ o.tag = "MetadataOperand" <=> v.k = "MetadataAsValue"
                /\ o.tag = "ConstantOperand" => o.c = v.c
                /\ o.tag = "LocalOperand" => o.name = FirstPassName(v)
    /\ pc \in {"second_pass", "done"} =>
         /\ bb_names = bb_names_of(bbresults)
         /\ val_names = val_names_of(func, bbresults, parameters)
    /\ pc = "done" =>
         func_ctr = ctr_val_after_parameters
                    + UnnamedAmong(func, EntitiesThrough(func, NumBlocks(func)))
                    - UnnamedAmong(func, Len(func.params))

\* a switch on a metadata value has been decoded, in a function that was
\* converted to its end
C17_Witness ==
    /\ pc = "done"
    /\ TermOf(func, 1).opcode = "Switch"
    /\ TermOf(func, 1).ops[1] = VMeta
    /\ basic_blocks[1].term.operand.tag = "MetadataOperand"
    /\ val_names = val_names_of(func, bbresults, parameters)

\* ---------------------------------------------------------------------------
\* the Typed capability

\* C18: Typed is total on terminators.  A query for the type of a decoded
\* terminator answers a type without aborting: void for Ret, Br, CondBr,
\* Switch, IndirectBr, Resume, Unreachable, CleanupRet and CatchRet, the
\* result type for Invoke, CallBr and CatchSwitch (for an Invoke or CallBr,
\* where its callee has a function type).
C18_TypedTotal ==
    (queried # None /\ queried.v.callee # "PointerType") =>
        /\ pc # "query_panicked"
        /\ queried.v.ty = IF queried.v.kind \in VoidTyped THEN "void" ELSE "result_type"

\* ---------------------------------------------------------------------------
\* the fuzz harness

\* C19: The fuzz contract.  Whatever the input, the harness ends without a
\* crash: an input of fewer than 20 bytes is skipped and the parser is never
\* called on it; on any other input Module::from_bc_path answers Ok or Err
\* and does not abort, that is, no panic of the decoder is reachable from a
\* module the foreign parser accepts (with a foreign library that knows
\* every attribute name of the catalog).
C19_FuzzContract ==
    /\ (pc # "start" /\ data_len < MinDataLen) => pc = "skipped"
    /\ pc = "skipped" =>
         /\ data_len < MinDataLen
         /\ attrsdata = NoAttributesData /\ ndecoded = 0 /\ func = NoFunction
    /\ pc = "panicked" => MissedNames # {}

\* ---------------------------------------------------------------------------
\* ret

\* C20: Ret.  A ret with 0 operands decodes to Ret with return_operand
\* None (and not to some constant standing for "nothing"); a ret with
\* exactly 1 operand decodes to Ret with return_operand Some(the decoded
\* operand 0); a ret with any other operand count is never decoded: the
\* conversion aborts on it.
C20_RetOperand ==
    \A b \in 1..NumBlocks(func) :
        LET t == TermOf(func, b)
        IN  (t.opcode = "Ret" /\ ~HasDangling(t)) =>
              /\ b <= Len(basic_blocks) =>
                    /\ basic_blocks[b].term.kind = "Ret"
                    /\ Len(t.ops) \in {0, 1}
                    /\ Len(t.ops) = 0 => basic_blocks[b].term.return_operand = None
                    /\ Len(t.ops) = 1 =>
                          basic_blocks[b].term.return_operand = Some(DecodedOperand(t.ops[1]))
              /\ Len(t.ops) \notin {0, 1} =>
                    /\ pc \notin {"done", "idle", "ok"}
                    /\ (pc = "panicked" /\ Len(basic_blocks) = b - 1) =>
                          panic = "Ret instruction with n operands"
              /\ (Len(t.ops) \in {0, 1} /\ Len(basic_blocks) = b - 1) => pc # "panicked"

\* a ret with two operands has aborted the conversion
C20_Witness ==
    /\ pc = "panicked"
    /\ panic = "Ret instruction with n operands"
    /\ TermOf(func, 1).opcode = "Ret"
    /\ Len(TermOf(func, 1).ops) = 2
    /\ basic_blocks = <<>>

\* ---------------------------------------------------------------------------
\* looking a block up

\* equality of Names by (kind, value)
SameName(a, b) ==
    /\ a.kind = b.kind
    /\ IF a.kind = "Name" THEN a.s = b.s ELSE a.n = b.n

\* C21: get_bb_by_name.  Looking a Name up in a converted function answers
\* Some(block) with block.name equal to that Name, in kind and in value,
\* whenever a block of the function has that Name (the first such block),
\* and None exactly when no block has it; a block whose string name prints
\* like the sequence number looked up, or the reverse, is not a match; and
\* the function is as the conversion left it: its blocks are those of the
\* foreign function, under the Names the first pass gave them.
C21_GetBbByName ==
    looked_up # None =>
      LET name == looked_up.v.name
          found == looked_up.v.found
          having == { b \in 1..Len(basic_blocks) : SameName(basic_blocks[b].name, name) }
      IN  /\ having # {} =>
                /\ found # None
                /\ SameName(found.v.name, name)
                /\ found.v = basic_blocks[CHOOSE b \in having : \A c \in having : b <= c]
          /\ (having = {}) <=> (found = None)
          /\ pc = "done"
          /\ Len(basic_blocks) = NumBlocks(func)
          /\ \A b \in 1..Len(basic_blocks) : basic_blocks[b].name = bb_names[b]

\* the number 0 was looked up in a function whose first block is named "0"
\* and whose second block is unnamed and numbered 0: the second was found
C21_Witness ==
    /\ looked_up # None
    /\ looked_up.v.name = NameNum(0)
    /\ Len(basic_blocks) = 2
    /\ basic_blocks[1].name = NameStr("0")
    /\ basic_blocks[2].name = NameNum(0)
    /\ looked_up.v.found = Some(basic_blocks[2])

\* ---------------------------------------------------------------------------
\* catchswitch handlers

\* C22: The catch_handlers list of every decoded CatchSwitch is non-empty.
C22_CatchHandlersNonEmpty ==
    \A b \in 1..Len(basic_blocks) :
        basic_blocks[b].term.kind = "CatchSwitch" =>
            basic_blocks[b].term.catch_handlers # <<>>

\* ---------------------------------------------------------------------------
\* the two passes agree

\* C23: The second pass numbers everything exactly as the first pass did.
\* Its counter starts at the counter's value after the parameters; the Name
\* of every block it decodes is the Name the first pass gave that block;
\* the result Name of every Invoke, CatchSwitch and CallBr it decodes, named
\* or unnamed, is the Name the first pass's value map holds for that
\* terminator; and when it has decoded every block its counter stands where
\* the first pass's counter stopped.
C23_SecondPassNumbersAlike ==
    /\ (pc = "second_pass" /\ basic_blocks = <<>>) => func_ctr = ctr_val_after_parameters
    /\ pc \in {"second_pass", "done"} =>
         \A b \in 1..Len(basic_blocks) :
            /\ basic_blocks[b].name = bb_names[b]
            /\ HasResult(basic_blocks[b].term) =>
                  /\ VTerm(b) \in DOMAIN val_names
                  /\ basic_blocks[b].term.result = val_names[VTerm(b)]
    /\ pc = "done" => func_ctr = local_ctr

\* an unnamed callbr, then an unnamed block with an unnamed value and an
\* unnamed invoke, then a named block: all were decoded with the numbers
\* of the first pass
C23_Witness ==
    /\ pc = "done"
    /\ Len(basic_blocks) = 3
    /\ basic_blocks[1].term.kind = "CallBr"
    /\ basic_blocks[1].term.result.kind = "Number"
    /\ basic_blocks[2].name.kind = "Number"
    /\ basic_blocks[2].name.n = basic_blocks[1].term.result.n + 1
    /\ basic_blocks[2].term.kind = "Invoke"
    /\ basic_blocks[2].term.result.kind = "Number"
    /\ basic_blocks[2].term.result = val_names[VTerm(2)]
    /\ func_ctr = local_ctr

\* ---------------------------------------------------------------------------
\* the bounds of a switch

\* C24: Switch bounds.  For a switch of n successors, n >= 0, the decoded
\* dests list has exactly max(n - 1, 0) entries; building it queries no
\* successor index >= n (not index n either, although the range of the
\* destinations is written 1..=n) and reads no operand index above
\* 2(n - 1); so a well-formed switch never fails on a destination.  (The
\* first conjunct speaks of the ranges alone, whatever the session does: it
\* is evaluated where a session starts.)
C24_SwitchBounds ==
    /\ pc = "start" =>
         \A n \in 0..(MaxCases + 2) :
            /\ SwitchNumCases(n) = Max(n - 1, 0)
            /\ \A i \in SwitchSuccessorsQueried(n) : i >= 1 /\ i < n
            /\ \A i \in SwitchOperandsRead(n) : i >= 2 /\ i <= 2 * (n - 1)
    /\ \A b \in 1..Len(basic_blocks) :
         basic_blocks[b].term.kind = "Switch" =>
            Len(basic_blocks[b].term.dests)
              = Max(LLVMGetNumSuccessors(TermOf(func, b)) - 1, 0)
    /\ panic # "Failed to find switch destination in map"

\* a switch of 3 successors was decoded with 2 dests, the second read from
\* successor 2
C24_Witness ==
    /\ pc = "done"
    /\ TermOf(func, 1).opcode = "Switch"
    /\ LLVMGetNumSuccessors(TermOf(func, 1)) = 3
    /\ Len(basic_blocks[1].term.dests) = 2
    /\ basic_blocks[1].term.dests[2][2] = bb_names[TermOf(func, 1).ops[6].b]

\* ---------------------------------------------------------------------------
\* cleanupret with an unwind destination

\* C25: Decoding a cleanupret whose unwind-destination query answers a
\* block registered by the first pass completes, and yields unwind_dest =
\* Some(the Name of that block), also when the instruction carries that
\* destination as a second operand next to the cleanup pad.
C25_CleanupRetUnwindDest ==
    \A b \in 1..NumBlocks(func) :
       LET t == TermOf(func, b)
           dest == LLVMGetUnwindDest(t)
       IN  (/\ t.opcode = "CleanupRet"
            /\ pc \in {"second_pass", "done", "panicked"}
            /\ dest # Null
            /\ dest \in DOMAIN bb_names) =>
              /\ pc = "panicked" => Len(basic_blocks) + 1 # b
              /\ Len(basic_blocks) >= b =>
                   /\ basic_blocks[b].term.kind = "CleanupRet"
                   /\ basic_blocks[b].term.unwind_dest = Some(bb_names[dest])

\* ---------------------------------------------------------------------------
\* allocsize

\* 32-bit words: the least, the greatest, the sentinel and its neighbours
Words == {0, 1, 4, 8, 65535, 65536, 2147483647, -2147483647 - 1, -2, -1}

\* (elt_size << 32) | (num_elts or 0xFFFF_FFFF)
AllocSizePacked(attr) ==
    BitOr(Shl32(as_u64(attr.elt_size)),
          as_u64(IF attr.num_elts = None THEN -1 ELSE attr.num_elts.v))

\* the positions of the function's attributes that the catalog of the
\* session knows as allocsize
AllocSizeAttrs ==
    { j \in 1..Len(func.fn_attrs) :
        /\ LLVMIsEnumAttribute(func.fn_attrs[j])
        /\ lookup_function_attr(attrsdata, LLVMGetEnumAttributeKind(func.fn_attrs[j]))
             = Some("allocsize") }

\* C26: AllocSize unpacking.  For every 64-bit attribute value v the decoded
\* AllocSize has elt_size = the upper 32 bits of v and num_elts = None if
\* the lower 32 bits are 0xFFFF_FFFF, else Some(the lower 32 bits); nothing
\* is lost: (elt_size << 32) | (num_elts or 0xFFFF_FFFF) = v.  Every
\* allocsize attribute of a converted function is decoded so.  (The first
\* conjunct speaks of the arithmetic alone, whatever the session does: it
\* is evaluated where a session starts.)
C26_AllocSizeUnpacking ==
    /\ pc = "start" =>
         \A hi \in Words, lo \in Words :
            LET v == U64(hi, lo)
                attr == AllocSize_from_value(v)
            IN  /\ attr.elt_size = hi
                /\ attr.num_elts = IF lo = -1 THEN None ELSE Some(lo)
                /\ AllocSizePacked(attr) = v
    /\ pc = "done" =>
         \A j \in AllocSizeAttrs :
            /\ function_attributes[j].variant = "AllocSize"
            /\ function_attributes[j] = AllocSize_from_value(func.fn_attrs[j].value)
            /\ AllocSizePacked(function_attributes[j]) = func.fn_attrs[j].value

\* a function carrying allocsize(8) and allocsize(8, 4) was converted with
\* AllocSize {8, None} and AllocSize {8, Some(4)}
C26_Witness ==
    /\ pc = "done"
    /\ Len(function_attributes) = 2
    /\ AllocSizeAttrs = {1, 2}
    /\ function_attributes[1].elt_size = 8
    /\ function_attributes[1].num_elts = None
    /\ function_attributes[2].elt_size = 8
    /\ function_attributes[2].num_elts = Some(4)

\* ---------------------------------------------------------------------------
\* calling conventions, back to their codes

\* the code a CallingConvention stands for: the one Numbered carries, or
\* the one llvm_sys::LLVMCallConv gives the named variant
CodeOf(cc) ==
    IF cc.variant = "Numbered" THEN cc.value
    ELSE LLVMCallConv[CHOOSE i \in 1..Len(LLVMCallConv) : LLVMCallConv[i][1] = cc.variant][2]

\* C27: CallingConvention::from_u32 is injective: two different codes never
\* decode to equal CallingConvention values, and Numbered(k) is never
\* produced for a code k that the enumeration covers; so the calling
\* convention of a converted function tells the code of the foreign
\* function.  (The first conjunct speaks of from_u32 alone, whatever the
\* session does: it is evaluated where a session starts, once for all
\* foreign libraries.)
C27_CallingConventionInjective ==
    /\ (pc = "start" /\ library = LibraryAttrNames) =>
         \A u \in CallConvCodes :
            /\ \A v \in CallConvCodes : from_u32(u) = from_u32(v) => u = v
            /\ from_u32(u).variant = "Numbered" => from_u32(u).value \notin EnumeratedCodes
    /\ pc = "done" =>
         /\ calling_convention # None
         /\ calling_convention.variant = "Numbered" =>
               calling_convention.value \notin EnumeratedCodes
         /\ CodeOf(calling_convention) = LLVMGetFunctionCallConv(func)

\* a function with the code of X86_RegCall, which the match lists between
\* two smaller codes, was converted to that variant
C27_Witness ==
    /\ pc = "done"
    /\ LLVMGetFunctionCallConv(func) = 92
    /\ calling_convention = Named("X86_RegCall")
    /\ CodeOf(calling_convention) = 92

\* ---------------------------------------------------------------------------
\* the second pass only reads

InstructionPairs == Flatten([i \in 1..Len(bbresults) |-> bbresults[i][2][2]])

\* C29: Parameter references resolve to the parameter list.  Once the value
\* map is built it holds, for every parameter k of the function, the
\* parameter's handle mapped to exactly parameters[k].name, so that a
\* LocalOperand decoded from a reference to parameter k carries that Name;
\* and the map holds every pair the first pass recorded for an instruction
\* next to them: no entry of either sort has replaced one of the other.
C29_ParameterReferences ==
    pc \in {"second_pass", "done"} =>
       /\ Len(parameters) = Len(get_parameters(func))
       /\ \A k \in 1..Len(parameters) :
            /\ get_parameters(func)[k] \in DOMAIN val_names
            /\ val_names[get_parameters(func)[k]] = parameters[k].name
       /\ LET pairs == InstructionPairs
          IN  /\ \A j \in 1..Len(pairs) :
                   /\ pairs[j][1].k = "Instruction"
                   /\ pairs[j][1] \in DOMAIN val_names
                   /\ val_names[pairs[j][1]] = pairs[j][2]
              /\ Cardinality(DOMAIN val_names) = Len(parameters) + Len(pairs)
       /\ \A b \in 1..Len(basic_blocks) :
            (/\ HasOperand0(basic_blocks[b].term)
             /\ TermOf(func, b).ops[1].k = "Argument") =>
               Operand0(basic_blocks[b].term)
                 = [tag |-> "LocalOperand",
                    name |-> parameters[TermOf(func, b).ops[1].i].name,
                    panic |-> NoPanic]

\* a function of a named and an unnamed parameter, with named and unnamed
\* values in its body, whose first terminator refers to the unnamed
\* parameter, was converted
C29_Witness ==
    /\ pc = "done"
    /\ Len(parameters) = 2
    /\ parameters[1].name.kind = "Name"
    /\ parameters[2].name = NameNum(0)
    /\ HasOperand0(basic_blocks[1].term)
    /\ TermOf(func, 1).ops[1] = VArg(2)
    /\ Operand0(basic_blocks[1].term).name = NameNum(0)
    /\ Len(InstructionPairs) >= 3

\* ---------------------------------------------------------------------------
\* the catalog and the decoders' arms

\* the names that have an arm
ArmNames(arms) == { arms[i][1] : i \in 1..Len(arms) }

\* the values an enum attribute is tried with
AttrValues == { U64(0, 0), U64(0, 16), U64(8, -1) }

\* the abort of a decoder that was handed a name it has no arm for
UnhandledPanics ==
    { "Unhandled value from lookup_function_attr", "Unhandled value from lookup_param_attr" }

\* the context was created and no function is converted yet
ContextCreated == pc = "idle" /\ ndecoded = 0

\* C30: Catalog/decoder consistency.  Every name the catalog registers in
\* the function-attribute table has an arm in FunctionAttribute::from_llvm_ref
\* and every name of the parameter-attribute table has one in
\* ParameterAttribute::from_llvm_ref: with the tables of a created context no
\* enum attribute, whatever its kind, makes a decoder abort with "Unhandled
\* value from lookup_*", and no conversion is aborted so; an attribute whose
\* kind is registered in only one of the tables decodes to a variant of its
\* own there and to UnknownAttribute in the other namespace.
C30_CatalogDecoderConsistency ==
    /\ panic \notin UnhandledPanics
    /\ ContextCreated =>
         LET fns == attrsdata.function_attribute_names
             pns == attrsdata.param_attribute_names
         IN  /\ { fns[k] : k \in DOMAIN fns } \subseteq ArmNames(FunctionAttrArms)
             /\ { pns[k] : k \in DOMAIN pns } \subseteq ArmNames(ParamAttrArms)
             /\ \A kind \in 0..(Len(library) + 1), v \in AttrValues :
                  LET a == EnumAttr(kind, v)
                      fa == FunctionAttribute_from_llvm_ref(a, attrsdata)
                      pa == ParameterAttribute_from_llvm_ref(a, attrsdata)
                  IN  /\ fa.panic = NoPanic
                      /\ pa.panic = NoPanic
                      /\ kind \in DOMAIN fns <=> fa.variant # "UnknownAttribute"
                      /\ kind \in DOMAIN pns <=> pa.variant # "UnknownAttribute"
    /\ pc = "done" =>
         /\ \A j \in 1..Len(func.fn_attrs) :
              (/\ LLVMIsEnumAttribute(func.fn_attrs[j])
               /\ lookup_function_attr(attrsdata, func.fn_attrs[j].kind) = None
               /\ lookup_param_attr(attrsdata, func.fn_attrs[j].kind) # None)
                 => function_attributes[j] = UnknownAttribute
         /\ \A i \in 1..Len(parameters) : \A j \in 1..Len(func.param_attrs[i]) :
              LET a == func.param_attrs[i][j]
              IN  (LLVMIsEnumAttribute(a) /\ lookup_param_attr(attrsdata, a.kind) # None)
                    => parameters[i].attributes[j].variant
                         \in { ParamAttrArms[n][2] : n \in 1..Len(ParamAttrArms) }

\* a converted function that carries a parameter attribute as its function
\* attribute, a function attribute on its return value, and on its
\* parameter an attribute of both tables
C30_Witness ==
    /\ pc = "done"
    /\ func.fn_attrs = <<EnumAttr(AttrKind("zeroext"), U64(0, 0))>>
    /\ func.ret_attrs = <<EnumAttr(AttrKind("nounwind"), U64(0, 0))>>
    /\ func.param_attrs = << <<EnumAttr(AttrKind("nofree"), U64(0, 0))>> >>
    /\ function_attributes = <<UnknownAttribute>>
    /\ return_attributes = <<UnknownAttribute>>
    /\ parameters[1].attributes[1].variant = "NoFree"

====
